---- MODULE Spec2Model ----
(***************************************************************************)
(* A model of the remote operation builder of                              *)
(* source/UIAHandler/_remoteOps/midLevel.py: the instruction stream, the   *)
(* operand id generator, the constant cache, the typed proxies and the     *)
(* scoped block builders (If / Else / While / Try / Catch) with their      *)
(* relative-offset backpatching.                                           *)
(*                                                                         *)
(* Instruction indices, operand ids and offsets keep the values they have  *)
(* in the Python code (indices are 0-based); the record of index i is      *)
(* instructions[i + 1].                                                    *)
(***************************************************************************)
EXTENDS Integers, Sequences, FiniteSets, TLC

VARIABLES
    loggingEnabled,      \* RemoteOperationBuilder._loggingEnablede
    instructions,        \* RemoteOperationBuilder._instructions
    operandIdGen,        \* RemoteOperationBuilder.operandIdGen: the id the next call of next() returns
    remotedObjectCache,  \* RemoteOperationBuilder._remotedObjectCache
    scopeJustExited,     \* RemoteOperationBuilder._scopeJustExited
    results,             \* RemoteOperationBuilder._results
    proxies,             \* the proxy objects handed to the caller so far
    scopeStack,          \* the caller's open `with` blocks, innermost last
    blocks,              \* history: one record per block entered
    patchLog,            \* history: every write to a RelativeOffset after its emission
    allocLog,            \* history: the operand ids issued, in order
    ensureLog,           \* history: the literals materialised by _ensureRemoteObject(useCache=True)
    lastEvent,           \* history: the kind of the most recent emission / scope entry / scope exit
    lastOp,              \* history: the most recent caller operation and its outcome
    submitted,           \* history: the programs handed to the engine, in order
    iteration,           \* iterExecute: the iterable function, maxTries and the engine's budget per run
    driver,              \* iterExecute: phase, runs made, static-variable table, values delivered
    run,                 \* the engine's state in the current run: position, count, operands, batch
    runLog,              \* history: one record per finished run
    yieldLog             \* history: every value passed to Yield, in emission order

iterVars == <<iteration, driver, run, runLog, yieldLog>>

vars == <<loggingEnabled, instructions, operandIdGen, remotedObjectCache,
          scopeJustExited, results, proxies, scopeStack, blocks, patchLog,
          allocLog, ensureLog, lastEvent, lastOp, submitted, iterVars>>

----------------------------------------------------------------------------
(* Bounds of the exploration *)

MaxInstr == 6       \* operations that emit are offered while the stream is shorter than this
MaxDepth == 2       \* open `with` blocks
MaxOperand == 2     \* operations that allocate are offered while fewer ids than this were issued
MaxExecute == 2     \* execute() calls
MaxExecInstr == 3   \* as MaxInstr, for the specification with execute()
MaxOpInstr == 4      \* as MaxInstr, for the specification of the proxy operations
MaxOpOperand == 3    \* as MaxOperand, for the specification of the proxy operations
MaxRunInstr == 3     \* as MaxInstr, for the specification of execute() and getResult()
MaxCount == 4        \* the loops of the iterable functions count up to at most this
MaxPeriod == 2       \* the static loop yields every 1 .. MaxPeriod iterations
MaxBudget == 30      \* the engine runs at most 1 .. MaxBudget instructions per call
MaxTries == 6
MaxStart == 2
MaxStop == 3
MaxStep == 2
MaxRangeBudget == 8
MaxRangeTries == 2
FullBudget == 100
MaxAgain == 3
MaxAgainInstr == 3

\* the numbers of test_forEachNumInRange and test_forEachItemInArray
RangeTestStart == 10
RangeTestStop == 15
ArrayTestStop == 10
ArrayTestStep == 2        \* iterExecute(maxTries = 1 .. MaxTries)

----------------------------------------------------------------------------
(* Parameters and instruction records *)

OperandId(n)      == [k |-> "OperandId", v |-> n]
RelativeOffset(n) == [k |-> "RelativeOffset", v |-> n]
c_long(n)         == [k |-> "c_long", v |-> n]
c_bool(n)         == [k |-> "c_bool", v |-> n]
WcharBuffer(n)    == [k |-> "c_wchar_Array", v |-> n]
Guid(n)           == [k |-> "GUID", v |-> n]

InstructionRecord(t, ps) == [instructionType |-> t, params |-> ps]

\* Python values the caller passes in: literals are [py, cls = "none", v = the value],
\* proxies are [py = "proxy", cls = the proxy class, v = the operand id].
Proxy(cls, id) == [py |-> "proxy", cls |-> cls, v |-> id]
Literal(py, v) == [py |-> py, cls |-> "none", v |-> v]
IsProxy(obj)   == obj.py = "proxy"
NoObj == Proxy("none", -1)

\* str literals stand for strings of v code units: Literal("str", 0) is "", Literal("str", 1) is "a"
IntLiterals  == {Literal("int", 0), Literal("int", 1)}
GuidLiterals == {Literal("GUID", 0)}
EnumLiterals == {Literal("Enum", 1)}                       \* an enum member whose value is the int 1

\* the length of the Python string a str literal stands for
StrLen(v) == v

NoScope == [cls |-> "None", index |-> -1, ifIndex |-> -1]
Scope(cls, index, ifIndex) == [cls |-> cls, index |-> index, ifIndex |-> ifIndex]

\* _results before any execute(): None; afterwards what the engine answered:
\* its status, the failing index, and the operand ids its result table holds
NoResults == [status |-> "None", errorLocation |-> -1, operands |-> {}]

----------------------------------------------------------------------------
(* The builder, as a value threaded through the calls one operation makes *)

Rob == [instructions       |-> instructions,
        operandIdGen       |-> operandIdGen,
        remotedObjectCache |-> remotedObjectCache,
        scopeJustExited    |-> scopeJustExited,
        patchLog           |-> patchLog,
        allocLog           |-> allocLog,
        ensureLog          |-> ensureLog]

SetRob(r) ==
    /\ instructions' = r.instructions
    /\ operandIdGen' = r.operandIdGen
    /\ remotedObjectCache' = r.remotedObjectCache
    /\ scopeJustExited' = r.scopeJustExited
    /\ patchLog' = r.patchLog
    /\ allocLog' = r.allocLog
    /\ ensureLog' = r.ensureLog

\* _getNewOperandId: the id returned is NewOperandId(r), the builder afterwards GetNewOperandId(r)
NewOperandId(r) == r.operandIdGen

\* an id generator that hands out the same id again
GetNewOperandIdStuck(r) ==
    [r EXCEPT !.allocLog = Append(@, r.operandIdGen)]

GetNewOperandId(r) ==
    [r EXCEPT !.operandIdGen = @ + 1,
              !.allocLog = Append(@, r.operandIdGen)]

\* _addInstruction: the index returned is AddedIndex(r), the builder afterwards AddInstruction(r, ..)
AddedIndex(r) == Len(r.instructions)

\* _addInstruction forgetting to clear the scope just exited
AddInstructionKeepingScope(r, t, ps) ==
    [r EXCEPT !.instructions = Append(@, InstructionRecord(t, ps))]

AddInstruction(r, t, ps) ==
    [r EXCEPT !.scopeJustExited = NoScope,
              !.instructions = Append(@, InstructionRecord(t, ps))]

LastInstructionIndex(r) == Len(r.instructions) - 1

GetInstructionRecord(r, i) == r.instructions[i + 1]

\* the patch written into the record's first parameter, whatever it is
SetOffsetFirstParam(r, i, p, val) ==
    [r EXCEPT !.instructions[i + 1].params[1].v = val,
              !.patchLog = Append(@, [index |-> i, pos |-> p, value |-> val])]

\* conditionInstruction.params[p].value = val   (p is the 0-based position)
SetOffset(r, i, p, val) ==
    [r EXCEPT !.instructions[i + 1].params[p + 1].v = val,
              !.patchLog = Append(@, [index |-> i, pos |-> p, value |-> val])]

GetOffset(r, i, p) == GetInstructionRecord(r, i).params[p + 1].v

----------------------------------------------------------------------------
(* Construction of remote values *)

\* cls._initOperand(rob, operandId, initialValue)
InitOperand(r, cls, operandId, initialValue) ==
    CASE cls = "RemoteInt" ->
            AddInstruction(r, "NewInt", <<OperandId(operandId), c_long(initialValue)>>)
      [] cls = "RemoteBool" ->
            AddInstruction(r, "NewBool", <<OperandId(operandId), c_bool(initialValue)>>)
      [] cls = "RemoteString" ->
            AddInstruction(r, "NewString", <<OperandId(operandId), WcharBuffer(initialValue)>>)
      [] cls = "RemoteGuid" ->
            AddInstruction(r, "NewGuid", <<OperandId(operandId), Guid(initialValue)>>)
      [] OTHER ->
            AddInstruction(r, "NewNull", <<OperandId(operandId)>>)

\* cls._new(rob, initialValue): the proxy returned is NewObj(r, cls), the builder afterwards NewRob(..)
NewObj(r, cls) == Proxy(cls, NewOperandId(r))

NewRob(r, cls, initialValue) ==
    InitOperand(GetNewOperandId(r), cls, NewOperandId(r), initialValue)

\* importElement / importTextRange: an id is issued and bound by the low-level
\* operation; no instruction is added.
ImportObj(r, cls) == Proxy(cls, NewOperandId(r))

ImportRob(r) == GetNewOperandId(r)

PyClassToRemoteClass(py) ==
    CASE py = "int"  -> "RemoteInt"
      [] py = "bool" -> "RemoteBool"
      [] py = "str"  -> "RemoteString"
      [] py = "GUID" -> "RemoteGuid"
      [] OTHER       -> "none"

\* Keys of the cache dictionary.  The tuple (type(obj), obj) and the bare obj
\* are different Python values and never compare equal.
CacheKey(obj) == [tuple |-> TRUE, py |-> obj.py, v |-> obj.v]
BareKey(obj)  == [tuple |-> FALSE, py |-> obj.py, v |-> obj.v]

\* the key _ensureRemoteObject looks up
CacheLookupKey(obj) == BareKey(obj)

\* if isinstance(obj, enum.Enum): obj = obj.value
EnumValue(obj) == IF obj.py = "Enum" THEN Literal("int", obj.v) ELSE obj

\* _ensureRemoteObject(obj, useCache): [rob |-> the builder afterwards,
\* obj |-> the proxy returned, err |-> the exception raised or "none"]
EnsureRemoteObject(r, obj0, useCache) ==
    IF IsProxy(obj0) THEN [rob |-> r, obj |-> obj0, err |-> "none"]
    ELSE
    LET obj == EnumValue(obj0)
        hit == useCache /\ CacheLookupKey(obj) \in DOMAIN r.remotedObjectCache
        made ==
            CASE obj.py = "IUIAutomationElement" ->
                    [rob |-> ImportRob(r), obj |-> ImportObj(r, "RemoteElement"), err |-> "none"]
              [] obj.py = "IUIAutomationTextRange" ->
                    [rob |-> ImportRob(r), obj |-> ImportObj(r, "RemoteTextRange"), err |-> "none"]
              [] PyClassToRemoteClass(obj.py) # "none" ->
                    [rob |-> NewRob(r, PyClassToRemoteClass(obj.py), obj.v),
                     obj |-> NewObj(r, PyClassToRemoteClass(obj.py)), err |-> "none"]
              [] OTHER -> [rob |-> r, obj |-> obj, err |-> "TypeError"]
        res ==
            IF hit THEN [rob |-> r, obj |-> r.remotedObjectCache[CacheLookupKey(obj)], err |-> "none"]
            ELSE IF made.err # "none" \/ ~useCache THEN made
            ELSE [made EXCEPT !.rob.remotedObjectCache =
                        (CacheKey(obj) :> made.obj) @@ made.rob.remotedObjectCache]
    IN  IF useCache /\ res.err = "none"
        THEN [res EXCEPT !.rob.ensureLog =
                    Append(@, [lit |-> obj, id |-> res.obj.v,
                               added |-> Len(res.rob.instructions) - Len(r.instructions)])]
        ELSE res

----------------------------------------------------------------------------
(* Scopes: _RemoteScope and the block builders *)

\* _RemoteScope.__enter__
ScopeEnter(r) == [r EXCEPT !.scopeJustExited = NoScope]

\* _RemoteScope.__exit__
ScopeExit(r, scope) == [r EXCEPT !.scopeJustExited = scope]

\* _RemoteIfBlockBuilder.__enter__: the scope entered is IfScope(r)
IfScope(r) == Scope("If", AddedIndex(ScopeEnter(r)), -1)

IfEnter(r, condition) ==
    AddInstruction(ScopeEnter(r), "ForkIfFalse",
                   <<OperandId(condition.v), RelativeOffset(1)>>)

\* _RemoteIfBlockBuilder.__exit__
IfExit(r, scope) ==
    LET nextInstructionIndex == LastInstructionIndex(r) + 1
        relativeJumpOffset == nextInstructionIndex - scope.index
    IN  ScopeExit(SetOffset(r, scope.index, 1, relativeJumpOffset), scope)

\* _RemoteElseBlockBuilder.__enter__, past the isinstance check
ElseScope(r) == Scope("Else", AddedIndex(ScopeEnter(r)), -1)

\* Else entry forgetting to move the If's false branch past the new jump
ElseEnterNoIncrement(r) ==
    AddInstruction(ScopeEnter(r), "Fork", <<RelativeOffset(1)>>)

ElseEnter(r) ==
    LET ifScope == r.scopeJustExited
        r1 == AddInstruction(ScopeEnter(r), "Fork", <<RelativeOffset(1)>>)
    IN  SetOffset(r1, ifScope.index, 1, GetOffset(r1, ifScope.index, 1) + 1)

\* Else / Catch exit forgetting to backpatch the jump
JumpExitNoPatch(r, scope) == ScopeExit(r, scope)

\* _RemoteElseBlockBuilder.__exit__ and _RemoteCatchBlockBuilder.__exit__
JumpExit(r, scope) ==
    LET nextInstructionIndex == LastInstructionIndex(r) + 1
        relativeJumpOffset == nextInstructionIndex - scope.index
    IN  ScopeExit(SetOffset(r, scope.index, 0, relativeJumpOffset), scope)

\* _RemoteTryBlockBuilder.__enter__
TryScope(r) == Scope("Try", AddedIndex(ScopeEnter(r)), -1)

TryEnter(r) ==
    ScopeEnter(AddInstruction(ScopeEnter(r), "NewTryBlock", <<RelativeOffset(1)>>))

\* Try exit taking the catch offset before EndTryBlock is added
TryExitBeforeEnd(r, scope) ==
    LET nextInstructionIndex == LastInstructionIndex(r) + 1
        relativeCatchOffset == nextInstructionIndex - scope.index
        r1 == SetOffset(r, scope.index, 0, relativeCatchOffset)
    IN  ScopeExit(AddInstruction(r1, "EndTryBlock", <<>>), scope)

\* _RemoteTryBlockBuilder.__exit__
TryExit(r, scope) ==
    LET r1 == AddInstruction(r, "EndTryBlock", <<>>)
        nextInstructionIndex == LastInstructionIndex(r1) + 1
        relativeCatchOffset == nextInstructionIndex - scope.index
    IN  ScopeExit(SetOffset(r1, scope.index, 0, relativeCatchOffset), scope)

\* _RemoteCatchBlockBuilder.__enter__, past the isinstance check
CatchScope(r) == Scope("Catch", AddedIndex(ScopeEnter(r)), -1)

CatchEnter(r) ==
    LET tryScope == r.scopeJustExited
        r1 == AddInstruction(ScopeEnter(r), "Fork", <<RelativeOffset(1)>>)
    IN  SetOffset(r1, tryScope.index, 0, GetOffset(r1, tryScope.index, 0) + 1)

\* The members of lowLevel.ComparisonType the comparison operators pass, in
\* the order the operators are defined; a member is encoded by its place in
\* this list (the numbers lowLevel gives them play no part in the builder).
ComparisonTypes == <<"Equal", "NotEqual", "GreaterThan", "LessThan",
                     "GreaterThanOrEqual", "LessThanOrEqual">>

\* c_long(comparisonType)
ComparisonType(name) ==
    c_long(CHOOSE i \in DOMAIN ComparisonTypes : ComparisonTypes[i] = name)

\* a comparison that makes its result with RemoteBool._new, as isNull does
DoCompareNewResult(r, self, comparisonType, other) ==
    LET e == EnsureRemoteObject(r, other, TRUE)
        r1 == NewRob(e.rob, "RemoteBool", 0)
        result == NewObj(e.rob, "RemoteBool")
    IN  IF e.err # "none" THEN [e EXCEPT !.obj = NoObj]
        ELSE [rob |-> AddInstruction(r1, "Compare",
                        <<OperandId(result.v), OperandId(self.v), OperandId(e.obj.v),
                          ComparisonType(comparisonType)>>),
              obj |-> result, err |-> "none"]

\* _doCompare(comparisonType, other): [rob, obj, err]
DoCompare(r, self, comparisonType, other) ==
    LET e == EnsureRemoteObject(r, other, TRUE)
        r1 == GetNewOperandId(e.rob)
        result == Proxy("RemoteBool", NewOperandId(e.rob))
    IN  IF e.err # "none" THEN [e EXCEPT !.obj = NoObj]
        ELSE [rob |-> AddInstruction(r1, "Compare",
                        <<OperandId(result.v), OperandId(self.v), OperandId(e.obj.v),
                          ComparisonType(comparisonType)>>),
              obj |-> result, err |-> "none"]

\* The condition builder functions a caller hands to whileBlock:
\*   "existing"  lambda: b               for a RemoteBool b made earlier
\*   "newBool"   lambda: rob.newBool(v)
\*   "lessThan"  lambda: i < lit         for a RemoteInt i made earlier and an int literal
\* [rob, obj, err]
ConditionBuilderFunc(r, how, arg, lit) ==
    CASE how = "existing" -> [rob |-> r, obj |-> arg, err |-> "none"]
      [] how = "newBool"  -> [rob |-> NewRob(r, "RemoteBool", lit.v),
                              obj |-> NewObj(r, "RemoteBool"), err |-> "none"]
      [] how = "lessThan" -> DoCompare(r, arg, "LessThan", lit)

\* _RemoteWhileBlockBuilder.__enter__: the scope entered is WhileScope(..)
WhileRobAtIf(r, how, arg, lit) ==
    ConditionBuilderFunc(
        AddInstruction(ScopeEnter(r), "NewLoopBlock", <<RelativeOffset(1), RelativeOffset(1)>>),
        how, arg, lit)

WhileScope(r, how, arg, lit) ==
    Scope("While", AddedIndex(ScopeEnter(r)), IfScope(WhileRobAtIf(r, how, arg, lit).rob).index)

WhileEnter(r, how, arg, lit) ==
    LET c == WhileRobAtIf(r, how, arg, lit)
    IN  IfEnter(c.rob, c.obj)

\* While exit taking the break offset before EndLoopBlock is added
WhileExitBreakBeforeEnd(r, scope) ==
    LET relativeContinueOffset == scope.index - LastInstructionIndex(r)
        r1 == AddInstruction(r, "Fork", <<RelativeOffset(relativeContinueOffset)>>)
        r2 == IfExit(r1, Scope("If", scope.ifIndex, -1))
        nextInstructionIndex == LastInstructionIndex(r2) + 1
        relativeBreakOffset == nextInstructionIndex - scope.index
        r3 == AddInstruction(r2, "EndLoopBlock", <<>>)
    IN  ScopeExit(SetOffset(r3, scope.index, 0, relativeBreakOffset), scope)

\* While exit whose closing jump lands on the NewLoopBlock instruction itself
WhileExitJumpToLoopBlock(r, scope) ==
    LET relativeContinueOffset == scope.index - LastInstructionIndex(r) - 1
        r1 == AddInstruction(r, "Fork", <<RelativeOffset(relativeContinueOffset)>>)
        r2 == IfExit(r1, Scope("If", scope.ifIndex, -1))
        r3 == AddInstruction(r2, "EndLoopBlock", <<>>)
        nextInstructionIndex == LastInstructionIndex(r3) + 1
        relativeBreakOffset == nextInstructionIndex - scope.index
    IN  ScopeExit(SetOffset(r3, scope.index, 0, relativeBreakOffset), scope)

\* While exit whose closing jump lands on the internal ForkIfFalse, past the
\* instructions of the condition
WhileExitJumpToIf(r, scope) ==
    LET relativeContinueOffset == scope.ifIndex - LastInstructionIndex(r) - 1
        r1 == AddInstruction(r, "Fork", <<RelativeOffset(relativeContinueOffset)>>)
        r2 == IfExit(r1, Scope("If", scope.ifIndex, -1))
        r3 == AddInstruction(r2, "EndLoopBlock", <<>>)
        nextInstructionIndex == LastInstructionIndex(r3) + 1
        relativeBreakOffset == nextInstructionIndex - scope.index
    IN  ScopeExit(SetOffset(r3, scope.index, 0, relativeBreakOffset), scope)

\* While exit closing the internal If before the closing Fork is appended
WhileExitIfBeforeFork(r, scope) ==
    LET relativeContinueOffset == scope.index - LastInstructionIndex(r)
        r1 == IfExit(r, Scope("If", scope.ifIndex, -1))
        r2 == AddInstruction(r1, "Fork", <<RelativeOffset(relativeContinueOffset)>>)
        r3 == AddInstruction(r2, "EndLoopBlock", <<>>)
        nextInstructionIndex == LastInstructionIndex(r3) + 1
        relativeBreakOffset == nextInstructionIndex - scope.index
    IN  ScopeExit(SetOffset(r3, scope.index, 0, relativeBreakOffset), scope)

\* While exit closing the internal If last, after the While scope itself
WhileExitIfLast(r, scope) ==
    LET relativeContinueOffset == scope.index - LastInstructionIndex(r)
        r1 == AddInstruction(r, "Fork", <<RelativeOffset(relativeContinueOffset)>>)
        r3 == AddInstruction(r1, "EndLoopBlock", <<>>)
        nextInstructionIndex == LastInstructionIndex(r3) + 1
        relativeBreakOffset == nextInstructionIndex - scope.index
        r4 == ScopeExit(SetOffset(r3, scope.index, 0, relativeBreakOffset), scope)
    IN  IfExit(r4, Scope("If", scope.ifIndex, -1))

\* _RemoteWhileBlockBuilder.__exit__
WhileExit(r, scope) ==
    LET relativeContinueOffset == scope.index - LastInstructionIndex(r)
        r1 == AddInstruction(r, "Fork", <<RelativeOffset(relativeContinueOffset)>>)
        r2 == IfExit(r1, Scope("If", scope.ifIndex, -1))
        r3 == AddInstruction(r2, "EndLoopBlock", <<>>)
        nextInstructionIndex == LastInstructionIndex(r3) + 1
        relativeBreakOffset == nextInstructionIndex - scope.index
    IN  ScopeExit(SetOffset(r3, scope.index, 0, relativeBreakOffset), scope)

----------------------------------------------------------------------------
(* Operations on proxies: [rob |-> the builder afterwards, obj |-> the value
   returned, err |-> the exception raised or "none"] *)

\* _RemoteBaseObject.set(value)
SetValue(r, self, value) ==
    LET e == EnsureRemoteObject(r, value, TRUE)
    IN  IF e.err # "none" THEN [e EXCEPT !.obj = NoObj]
        ELSE [rob |-> AddInstruction(e.rob, "Set", <<OperandId(self.v), OperandId(e.obj.v)>>),
              obj |-> NoObj, err |-> "none"]

\* _RemoteBaseObject.stringify()
Stringify(r, self) ==
    [rob |-> AddInstruction(GetNewOperandId(r), "Stringify",
                            <<OperandId(NewOperandId(r)), OperandId(self.v)>>),
     obj |-> Proxy("RemoteString", NewOperandId(r)), err |-> "none"]

\* _RemoteNumber._doBinaryOp(instructionType, other)
DoBinaryOp(r, self, instructionType, other) ==
    LET e == EnsureRemoteObject(r, other, TRUE)
        result == Proxy(self.cls, NewOperandId(e.rob))
    IN  IF e.err # "none" THEN [e EXCEPT !.obj = NoObj]
        ELSE [rob |-> AddInstruction(GetNewOperandId(e.rob), instructionType,
                        <<OperandId(result.v), OperandId(self.v), OperandId(e.obj.v)>>),
              obj |-> result, err |-> "none"]

\* _RemoteNumber._doInplaceOp(instructionType, other)
DoInplaceOp(r, self, instructionType, other) ==
    LET e == EnsureRemoteObject(r, other, TRUE)
    IN  IF e.err # "none" THEN [e EXCEPT !.obj = NoObj]
        ELSE [rob |-> AddInstruction(e.rob, instructionType,
                        <<OperandId(self.v), OperandId(e.obj.v)>>),
              obj |-> self, err |-> "none"]

\* RemoteString._concat(other, toResult)
Concat(r, self, other, toResult) ==
    LET o == IF IsProxy(other) /\ other.cls = "RemoteString"
                THEN [rob |-> r, obj |-> other, err |-> "none"]
             ELSE IF other.py = "str" THEN EnsureRemoteObject(r, other, TRUE)
             ELSE IF IsProxy(other) THEN Stringify(r, other)
             ELSE [rob |-> r, obj |-> NoObj, err |-> "TypeError"]
    IN  IF toResult.cls # "RemoteString" THEN [rob |-> r, obj |-> NoObj, err |-> "TypeError"]
        ELSE IF o.err # "none" THEN o
        ELSE [rob |-> AddInstruction(o.rob, "RemoteStringConcat",
                        <<OperandId(toResult.v), OperandId(self.v), OperandId(o.obj.v)>>),
              obj |-> toResult, err |-> "none"]

\* RemoteString.__add__(other)
StringAdd(r, self, other) ==
    Concat(GetNewOperandId(r), self, other, Proxy("RemoteString", NewOperandId(r)))

\* RemoteString.__iadd__(other)
StringIAdd(r, self, other) == Concat(r, self, other, self)

\* _RemoteNullable.isNull()
IsNull(r, self) ==
    [rob |-> AddInstruction(NewRob(r, "RemoteBool", 0), "IsNull",
                            <<OperandId(NewObj(r, "RemoteBool").v), OperandId(self.v)>>),
     obj |-> NewObj(r, "RemoteBool"), err |-> "none"]

\* remoteClass._isTypeInstruction; the classes that do not set it have none
IsTypeInstruction(remoteClass) ==
    CASE remoteClass = "RemoteInt" -> "IsInt"
      [] remoteClass = "RemoteBool" -> "IsBool"
      [] remoteClass = "RemoteString" -> "IsString"
      [] remoteClass = "RemoteElement" -> "IsElement"
      [] remoteClass = "RemoteGuid" -> "IsGuid"
      [] OTHER -> "none"

\* RemoteVariant.isType(remoteClass): newBool() has run when the attribute lookup fails
IsType(r, self, remoteClass) ==
    LET r1 == NewRob(r, "RemoteBool", 0)
        result == NewObj(r, "RemoteBool")
    IN  IF IsTypeInstruction(remoteClass) = "none"
        THEN [rob |-> r1, obj |-> NoObj, err |-> "AttributeError"]
        ELSE [rob |-> AddInstruction(r1, IsTypeInstruction(remoteClass),
                        <<OperandId(result.v), OperandId(self.v)>>),
              obj |-> result, err |-> "none"]

\* a narrowing that constructs a new remote value of the class
AsTypeNewObject(r, self, remoteClass) ==
    [rob |-> NewRob(r, remoteClass, 0), obj |-> NewObj(r, remoteClass), err |-> "none"]

\* RemoteVariant.asType(remoteClass)
AsType(r, self, remoteClass) ==
    [rob |-> r, obj |-> Proxy(remoteClass, self.v), err |-> "none"]

\* RemoteExtensionTarget.isExtensionSupported(extensionGuid)
IsExtensionSupported(r, self, extensionGuid) ==
    LET e == EnsureRemoteObject(r, extensionGuid, TRUE)
        result == Proxy("RemoteBool", NewOperandId(e.rob))
    IN  IF e.err # "none" THEN [e EXCEPT !.obj = NoObj]
        ELSE [rob |-> AddInstruction(GetNewOperandId(e.rob), "IsExtensionSupported",
                        <<OperandId(result.v), OperandId(self.v), OperandId(e.obj.v)>>),
              obj |-> result, err |-> "none"]

OperandIds(params) == [i \in DOMAIN params |-> OperandId(params[i].v)]

\* RemoteExtensionTarget.callExtension(extensionGuid, *params)
CallExtension(r, self, extensionGuid, params) ==
    LET e == EnsureRemoteObject(r, extensionGuid, TRUE)
    IN  IF e.err # "none" THEN [e EXCEPT !.obj = NoObj]
        ELSE [rob |-> AddInstruction(e.rob, "CallExtension",
                        <<OperandId(self.v), OperandId(e.obj.v), c_long(Len(params))>>
                        \o OperandIds(params)),
              obj |-> NoObj, err |-> "none"]

\* RemoteElement.getPropertyValue(propertyId, ignoreDefault)
GetPropertyValue(r, self, propertyId, ignoreDefault) ==
    LET e1 == EnsureRemoteObject(r, propertyId, TRUE)
        e2 == IF IsProxy(ignoreDefault) /\ ignoreDefault.cls = "RemoteBool"
              THEN [rob |-> e1.rob, obj |-> ignoreDefault, err |-> "none"]
              ELSE EnsureRemoteObject(e1.rob, ignoreDefault, TRUE)
        result == Proxy("RemoteVariant", NewOperandId(e2.rob))
    IN  IF e1.err # "none" THEN [e1 EXCEPT !.obj = NoObj]
        ELSE IF e2.err # "none" THEN [e2 EXCEPT !.obj = NoObj]
        ELSE [rob |-> AddInstruction(GetNewOperandId(e2.rob), "GetPropertyValue",
                        <<OperandId(result.v), OperandId(self.v), OperandId(e1.obj.v),
                          OperandId(e2.obj.v)>>),
              obj |-> result, err |-> "none"]

\* setOperationStatus(status)
SetOperationStatus(r, status) ==
    LET e == EnsureRemoteObject(r, status, TRUE)
    IN  IF e.err # "none" THEN [e EXCEPT !.obj = NoObj]
        ELSE [rob |-> AddInstruction(e.rob, "SetOperationStatus", <<OperandId(e.obj.v)>>),
              obj |-> NoObj, err |-> "none"]

\* getOperationStatus()
GetOperationStatus(r) ==
    [rob |-> AddInstruction(GetNewOperandId(r), "GetOperationStatus",
                            <<OperandId(NewOperandId(r))>>),
     obj |-> Proxy("RemoteInt", NewOperandId(r)), err |-> "none"]

----------------------------------------------------------------------------
(* The state after RemoteOperationBuilder(enableLogging) *)

NoRecord == InstructionRecord("none", <<>>)

NoOp == [op |-> "none", err |-> "none", self |-> -1, result |-> -1,
         lenBefore |-> 0, idBefore |-> 1, eventBefore |-> "none", literals |-> 0, converted |-> 0,
         record |-> NoRecord, consecutiveExecutes |-> 0]

\* no iterable function in hand
NoIteration == [function |-> [name |-> "none", start |-> 0, n |-> 0, step |-> 0, period |-> 0],
                maxTries |-> 0, budget |-> 0]
NoRun == [pc |-> 0, executed |-> 0, operands |-> <<>>, batch |-> <<>>, start |-> <<>>]
NoDriver == [phase |-> "none", runs |-> 0, statics |-> <<>>, delivered |-> <<>>]

\* the record of the operation the caller performs in this step
Op(name, err, self, result) ==
    [op |-> name, err |-> err, self |-> self, result |-> result,
     lenBefore |-> Len(instructions), idBefore |-> operandIdGen,
     eventBefore |-> lastEvent, literals |-> 0, converted |-> 0,
     record |-> NoRecord,
     consecutiveExecutes |-> IF name = "execute" THEN lastOp.consecutiveExecutes + 1 ELSE 0]

EmptyRob == [instructions |-> <<>>, operandIdGen |-> 1, remotedObjectCache |-> <<>>,
             scopeJustExited |-> NoScope, patchLog |-> <<>>, allocLog |-> <<>>,
             ensureLog |-> <<>>]

\* __init__: with logging the builder makes its log string, self.newString()
InitRob(enableLogging) ==
    IF enableLogging THEN NewRob(EmptyRob, "RemoteString", 0) ELSE EmptyRob

\* the builder after __init__
InitBuilder ==
    /\ loggingEnabled \in BOOLEAN
    /\ instructions = InitRob(loggingEnabled).instructions
    /\ operandIdGen = InitRob(loggingEnabled).operandIdGen
    /\ remotedObjectCache = InitRob(loggingEnabled).remotedObjectCache
    /\ scopeJustExited = InitRob(loggingEnabled).scopeJustExited
    /\ patchLog = <<>>
    /\ allocLog = InitRob(loggingEnabled).allocLog
    /\ ensureLog = <<>>
    /\ results = NoResults
    /\ proxies = {}
    /\ scopeStack = <<>>
    /\ blocks = <<>>
    /\ lastEvent = IF loggingEnabled THEN "instruction" ELSE "none"
    /\ lastOp = NoOp
    /\ submitted = <<>>

Init ==
    /\ InitBuilder
    /\ iteration = NoIteration
    /\ driver = NoDriver
    /\ run = NoRun
    /\ runLog = <<>>
    /\ yieldLog = <<>>

----------------------------------------------------------------------------
(* Operations of the builder that make values or plain instructions *)

ProxiesOf(classes) == {p \in proxies : p.cls \in classes}

OpName(cls) ==
    CASE cls = "RemoteInt" -> "newInt"
      [] cls = "RemoteBool" -> "newBool"
      [] cls = "RemoteString" -> "newString"
      [] cls = "RemoteGuid" -> "newGuid"
      [] cls = "RemoteVariant" -> "newVariant"
      [] cls = "RemoteExtensionTarget" -> "newNULLExtensionTarget"
      [] cls = "RemoteElement" -> "newNULLElement"
      [] cls = "RemoteTextRange" -> "newNULLTextRange"

\* newInt / newBool / newString / newGuid / newVariant / newNULL...
New(cls, initialValue) ==
    /\ SetRob(NewRob(Rob, cls, initialValue))
    /\ proxies' = proxies \cup {NewObj(Rob, cls)}
    /\ lastEvent' = "instruction"
    /\ lastOp' = Op(OpName(cls), "none", -1, NewObj(Rob, cls).v)
    /\ UNCHANGED <<iterVars, loggingEnabled, results, scopeStack, blocks, submitted>>

\* importElement(element) / importTextRange(textRange)
Import(cls) ==
    /\ SetRob(ImportRob(Rob))
    /\ proxies' = proxies \cup {ImportObj(Rob, cls)}
    /\ lastOp' = Op(IF cls = "RemoteElement" THEN "importElement" ELSE "importTextRange",
                    "none", -1, ImportObj(Rob, cls).v)
    /\ UNCHANGED <<iterVars, loggingEnabled, results, scopeStack, blocks, submitted, lastEvent>>

\* breakLoop() / continueLoop()
LoopControl(t) ==
    /\ SetRob(AddInstruction(Rob, t, <<>>))
    /\ lastEvent' = "instruction"
    /\ lastOp' = Op(IF t = "BreakLoop" THEN "breakLoop" ELSE "continueLoop", "none", -1, -1)
    /\ UNCHANGED <<iterVars, loggingEnabled, results, proxies, scopeStack, blocks, submitted>>

----------------------------------------------------------------------------
(* The caller's operations on proxies *)

\* how many of the operands are Python values rather than proxies
RECURSIVE Literals(_)
Literals(operands) ==
    IF operands = <<>> THEN 0
    ELSE (IF IsProxy(Head(operands)) THEN 0 ELSE 1) + Literals(Tail(operands))

\* the caller performs the operation whose outcome is res
ProxyOperation(name, self, res, literals, converted) ==
    /\ SetRob(res.rob)
    /\ proxies' = IF res.err = "none" /\ res.obj # NoObj
                  THEN proxies \cup {res.obj} ELSE proxies
    /\ lastEvent' = IF Len(res.rob.instructions) > Len(instructions)
                    THEN "instruction" ELSE lastEvent
    /\ lastOp' = [Op(name, res.err, self.v, res.obj.v) EXCEPT
                     !.literals = literals, !.converted = converted]
    /\ UNCHANGED <<iterVars, loggingEnabled, results, scopeStack, blocks, submitted>>

SetOp(self, value) ==
    ProxyOperation("set", self, SetValue(Rob, self, value), Literals(<<value>>), 0)

StringifyOp(self) ==
    ProxyOperation("stringify", self, Stringify(Rob, self), 0, 0)

\* self < other, self == other, ...
CompareOp(self, comparisonType, other) ==
    ProxyOperation("compare", self, DoCompare(Rob, self, comparisonType, other),
                   Literals(<<other>>), 0)

\* self + other, self - other, ...
BinaryOp(self, instructionType, other) ==
    ProxyOperation("binaryOp", self, DoBinaryOp(Rob, self, instructionType, other),
                   Literals(<<other>>), 0)

\* self += other, self -= other, ...
InplaceOp(self, instructionType, other) ==
    ProxyOperation("inplaceOp", self, DoInplaceOp(Rob, self, instructionType, other),
                   Literals(<<other>>), 0)

NeedsStringify(other) == IF IsProxy(other) /\ other.cls # "RemoteString" THEN 1 ELSE 0

\* string + other
StringAddOp(self, other) ==
    ProxyOperation("concat", self, StringAdd(Rob, self, other),
                   Literals(<<other>>), NeedsStringify(other))

\* string += other
StringIAddOp(self, other) ==
    ProxyOperation("concat", self, StringIAdd(Rob, self, other),
                   Literals(<<other>>), NeedsStringify(other))

IsNullOp(self) ==
    ProxyOperation("isNull", self, IsNull(Rob, self), 0, 0)

IsTypeOp(self, remoteClass) ==
    ProxyOperation("isType", self, IsType(Rob, self, remoteClass), 0, 0)

AsTypeOp(self, remoteClass) ==
    ProxyOperation("asType", self, AsType(Rob, self, remoteClass), 0, 0)

IsExtensionSupportedOp(self, extensionGuid) ==
    ProxyOperation("isExtensionSupported", self,
                   IsExtensionSupported(Rob, self, extensionGuid),
                   Literals(<<extensionGuid>>), 0)

CallExtensionOp(self, extensionGuid, params) ==
    ProxyOperation("callExtension", self,
                   CallExtension(Rob, self, extensionGuid, params),
                   Literals(<<extensionGuid>>), 0)

GetPropertyValueOp(self, propertyId, ignoreDefault) ==
    ProxyOperation("getPropertyValue", self,
                   GetPropertyValue(Rob, self, propertyId, ignoreDefault),
                   Literals(<<propertyId, ignoreDefault>>), 0)

SetOperationStatusOp(status) ==
    ProxyOperation("setOperationStatus", NoObj, SetOperationStatus(Rob, status),
                   Literals(<<status>>), 0)

GetOperationStatusOp ==
    ProxyOperation("getOperationStatus", NoObj, GetOperationStatus(Rob), 0, 0)

----------------------------------------------------------------------------
(* The caller's `with` blocks *)

\* history record of a block: the index of its opening instruction, the
\* length of the stream after entry (the index of the first body
\* instruction), the length of the stream before and after exit, and for an
\* Else or Catch the opening index of the If or Try it follows.
Block(cls, start, bodyStart, pred) ==
    [cls |-> cls, start |-> start, bodyStart |-> bodyStart,
     bodyEnd |-> -1, end |-> -1, pred |-> pred]

Entered(r, scope, name, cls, pred) ==
    /\ SetRob(r)
    /\ scopeStack' = Append(scopeStack, scope)
    /\ blocks' = Append(blocks, Block(cls, Len(instructions), Len(r.instructions), pred))
    /\ lastEvent' = "enter"
    /\ lastOp' = Op(name, "none", -1, -1)
    /\ UNCHANGED <<iterVars, loggingEnabled, results, submitted>>

\* __enter__ raising only after super().__enter__() has run
RejectedAfterEnter(name, err) ==
    /\ lastOp' = Op(name, err, -1, -1)
    /\ scopeJustExited' = NoScope
    /\ UNCHANGED <<iterVars, loggingEnabled, instructions, operandIdGen, remotedObjectCache,
                   results, proxies, scopeStack, blocks, patchLog,
                   allocLog, ensureLog, lastEvent, submitted>>

\* __enter__ raised: nothing of the builder changed
Rejected(name, err) ==
    /\ lastOp' = Op(name, err, -1, -1)
    /\ UNCHANGED <<iterVars, loggingEnabled, instructions, operandIdGen, remotedObjectCache,
                   scopeJustExited, results, proxies, scopeStack, blocks, patchLog,
                   allocLog, ensureLog, lastEvent, submitted>>

\* with rob.ifBlock(condition):
EnterIf(condition) ==
    /\ Entered(IfEnter(Rob, condition), IfScope(Rob), "ifBlock", "If", -1)
    /\ UNCHANGED proxies

\* with rob.elseBlock():
EnterElse ==
    /\ IF scopeJustExited.cls # "If"
       THEN Rejected("elseBlock", "RuntimeError")
       ELSE /\ Entered(ElseEnter(Rob), ElseScope(Rob), "elseBlock", "Else",
                       scopeJustExited.index)
            /\ UNCHANGED proxies

\* with rob.whileBlock(conditionBuilderFunc):
EnterWhile(how, arg, lit) ==
    /\ Entered(WhileEnter(Rob, how, arg, lit), WhileScope(Rob, how, arg, lit),
               "whileBlock", "While", -1)
    /\ proxies' = proxies \cup {WhileRobAtIf(Rob, how, arg, lit).obj}


\* with rob.tryBlock():
EnterTry ==
    /\ Entered(TryEnter(Rob), TryScope(Rob), "tryBlock", "Try", -1)
    /\ UNCHANGED proxies

\* catchBlock() accepting the exit of a Catch scope as well
EnterCatchAfterCatch ==
    /\ IF scopeJustExited.cls \notin {"Try", "Catch"}
       THEN Rejected("catchBlock", "RuntimeError")
       ELSE /\ Entered(CatchEnter(Rob), CatchScope(Rob), "catchBlock", "Catch",
                       scopeJustExited.index)
            /\ UNCHANGED proxies

\* with rob.catchBlock():
EnterCatch ==
    /\ IF scopeJustExited.cls # "Try"
       THEN Rejected("catchBlock", "RuntimeError")
       ELSE /\ Entered(CatchEnter(Rob), CatchScope(Rob), "catchBlock", "Catch",
                       scopeJustExited.index)
            /\ UNCHANGED proxies

\* the end of the innermost open `with` block: __exit__ of its scope object
TopScope == scopeStack[Len(scopeStack)]

OpenBlock == CHOOSE b \in DOMAIN blocks :
                blocks[b].start = TopScope.index /\ blocks[b].end = -1

ExitRob(r, scope) ==
    CASE scope.cls = "If" -> IfExit(r, scope)
      [] scope.cls = "While" -> WhileExit(r, scope)
      [] scope.cls = "Try" -> TryExit(r, scope)
      [] scope.cls \in {"Else", "Catch"} -> JumpExit(r, scope)

Exit(cls) ==
    /\ scopeStack # <<>>
    /\ TopScope.cls = cls
    /\ SetRob(ExitRob(Rob, TopScope))
    /\ scopeStack' = SubSeq(scopeStack, 1, Len(scopeStack) - 1)
    /\ blocks' = [blocks EXCEPT ![OpenBlock].bodyEnd = Len(instructions),
                                ![OpenBlock].end = Len(instructions')]
    /\ lastEvent' = cls
    /\ lastOp' = Op("exit", "none", -1, -1)
    /\ UNCHANGED <<iterVars, loggingEnabled, results, proxies, submitted>>

ExitIf == Exit("If")
ExitElse == Exit("Else")
ExitWhile == Exit("While")
ExitTry == Exit("Try")
ExitCatch == Exit("Catch")

----------------------------------------------------------------------------
(* execute() *)

Statuses == {"Success", "MalformedBytecode", "InstructionLimitExceeded",
             "UnhandledException", "ExecutionFailure"}

\* execute() without its last elif
StatusErrorWithoutLastBranch(status) ==
    CASE status = "MalformedBytecode" -> "MalformedBytecodeException"
      [] status = "InstructionLimitExceeded" -> "InstructionLimitExceededException"
      [] status = "UnhandledException" -> "RemoteException"
      [] OTHER -> "none"

\* the exception execute() raises for a status
StatusError(status) ==
    CASE status = "MalformedBytecode" -> "MalformedBytecodeException"
      [] status = "InstructionLimitExceeded" -> "InstructionLimitExceededException"
      [] status = "UnhandledException" -> "RemoteException"
      [] status = "ExecutionFailure" -> "ExecutionFailureException"
      [] OTHER -> "none"

\* _generateByteCode: per instruction the packed opcode, then each parameter's
\* raw bytes; a text parameter loses its terminator and is preceded by its packed length
ParamCells(param) ==
    IF param.k = "c_wchar_Array"
    THEN <<[cell |-> "length", t |-> "", v |-> StrLen(param.v)],
           [cell |-> "text", t |-> "", v |-> param.v]>>
    ELSE <<[cell |-> param.k, t |-> "", v |-> param.v]>>

RECURSIVE ParamsByteCode(_)
ParamsByteCode(params) ==
    IF params = <<>> THEN <<>>
    ELSE ParamCells(Head(params)) \o ParamsByteCode(Tail(params))

\* an encoder that puts each instruction in front of the ones before it
RECURSIVE GenerateByteCodePrepending(_)
GenerateByteCodePrepending(ins) ==
    IF ins = <<>> THEN <<>>
    ELSE GenerateByteCodePrepending(Tail(ins))
         \o <<[cell |-> "opcode", t |-> Head(ins).instructionType, v |-> 0]>>
         \o ParamsByteCode(Head(ins).params)

RECURSIVE GenerateByteCode(_)
GenerateByteCode(ins) ==
    IF ins = <<>> THEN <<>>
    ELSE <<[cell |-> "opcode", t |-> Head(ins).instructionType, v |-> 0]>>
         \o ParamsByteCode(Head(ins).params) \o GenerateByteCode(Tail(ins))

VersionBytes == <<[cell |-> "version", t |-> "", v |-> 0]>>

\* execute() without the final Halt
HaltOmitted(r) == r

\* halt()
Halt(r) == AddInstruction(r, "Halt", <<>>)

\* the failing index taken as counted from one: self._instructions[errorLocation - 1]
ErrorRecordCountingFromOne(r, errorLocation) ==
    r.instructions[IF errorLocation = 0 THEN Len(r.instructions) ELSE errorLocation]

\* the record execute() names in the message of its RemoteException:
\* _getInstructionRecord(self._results.errorLocation)
ErrorRecord(r, errorLocation) == GetInstructionRecord(r, errorLocation)

\* the caller's own rob.halt()
HaltOp ==
    /\ SetRob(Halt(Rob))
    /\ lastEvent' = "instruction"
    /\ lastOp' = Op("halt", "none", -1, -1)
    /\ UNCHANGED <<iterVars, loggingEnabled, results, proxies, scopeStack, blocks, submitted>>

\* an execute() that adds its Halt only to a stream that does not end with one
ExecuteHaltingOnce(status, errorLocation, operands) ==
    /\ LET r == IF instructions # <<>>
                    /\ instructions[Len(instructions)].instructionType = "Halt"
                THEN Rob ELSE Halt(Rob)
       IN  /\ SetRob(r)
           /\ submitted' = Append(submitted, VersionBytes \o GenerateByteCode(r.instructions))
           /\ errorLocation \in 0 .. Len(r.instructions) - 1
           /\ lastOp' = [Op("execute", StatusError(status), -1,
                            IF status = "UnhandledException" THEN errorLocation ELSE -1)
                         EXCEPT !.record = IF status = "UnhandledException"
                                           THEN ErrorRecord(r, errorLocation)
                                           ELSE NoRecord]
    /\ results' = [status |-> status, errorLocation |-> errorLocation, operands |-> operands]
    /\ lastEvent' = "instruction"
    /\ UNCHANGED <<iterVars, loggingEnabled, proxies, scopeStack, blocks>>

\* an execute() that calls the engine again when the status is a failure
ExecuteRetrying(status, errorLocation, operands) ==
    /\ LET r == Halt(Rob)
           program == VersionBytes \o GenerateByteCode(r.instructions)
       IN  /\ SetRob(r)
           /\ submitted' = IF status = "Success" THEN Append(submitted, program)
                            ELSE submitted \o <<program, program>>
           /\ errorLocation \in 0 .. Len(r.instructions) - 1
           /\ lastOp' = [Op("execute", StatusError(status), -1,
                            IF status = "UnhandledException" THEN errorLocation ELSE -1)
                         EXCEPT !.record = IF status = "UnhandledException"
                                           THEN ErrorRecord(r, errorLocation)
                                           ELSE NoRecord]
    /\ results' = [status |-> status, errorLocation |-> errorLocation, operands |-> operands]
    /\ lastEvent' = "instruction"
    /\ UNCHANGED <<iterVars, loggingEnabled, proxies, scopeStack, blocks>>

\* execute(): halt, serialise, one call of the engine, which answers with a
\* status, the operand ids of its result table and, for UnhandledException,
\* the index of the failing instruction. The answer is stored before the status
\* is looked at. With logging, the UnhandledException branch reads the log with
\* getResult and swallows its failure: the exception raised is the same.
Execute(status, errorLocation, operands) ==
    /\ LET r == Halt(Rob)
       IN  /\ SetRob(r)
           /\ submitted' = Append(submitted, VersionBytes \o GenerateByteCode(r.instructions))
           /\ errorLocation \in 0 .. Len(r.instructions) - 1
           /\ lastOp' = [Op("execute", StatusError(status), -1,
                            IF status = "UnhandledException" THEN errorLocation ELSE -1)
                         EXCEPT !.record = IF status = "UnhandledException"
                                           THEN ErrorRecord(r, errorLocation)
                                           ELSE NoRecord]
    /\ results' = [status |-> status, errorLocation |-> errorLocation, operands |-> operands]
    /\ lastEvent' = "instruction"
    /\ UNCHANGED <<iterVars, loggingEnabled, proxies, scopeStack, blocks>>

\* a getResult() without the test of _results
GetResultWithoutExecutedTest(remoteObj) ==
    /\ lastOp' = IF remoteObj.v \notin results.operands
                 THEN Op("getResult", "LookupError", remoteObj.v, -1)
                 ELSE Op("getResult", "none", remoteObj.v, remoteObj.v)
    /\ UNCHANGED <<iterVars, loggingEnabled, instructions, operandIdGen, remotedObjectCache,
                   scopeJustExited, results, proxies, scopeStack, blocks, patchLog,
                   allocLog, ensureLog, lastEvent, submitted>>

\* getResult(remoteObj): RuntimeError while _results is None, LookupError when
\* the result table has no such operand, else the table's value for the operand
\* (written here as the operand id it is stored under)
GetResult(remoteObj) ==
    /\ lastOp' = IF results = NoResults
                 THEN Op("getResult", "RuntimeError", remoteObj.v, -1)
                 ELSE IF remoteObj.v \notin results.operands
                      THEN Op("getResult", "LookupError", remoteObj.v, -1)
                      ELSE Op("getResult", "none", remoteObj.v, remoteObj.v)
    /\ UNCHANGED <<iterVars, loggingEnabled, instructions, operandIdGen, remotedObjectCache,
                   scopeJustExited, results, proxies, scopeStack, blocks, patchLog,
                   allocLog, ensureLog, lastEvent, submitted>>

----------------------------------------------------------------------------------------------------------------------------------------
(* The builder driven through blocks *)

CanEmit(n) == Len(instructions) < n
CanAllocate == Len(allocLog) < MaxOperand
CanEnter(n) == Len(scopeStack) < MaxDepth /\ CanEmit(n)

BlockValueClasses == {"RemoteBool", "RemoteInt"}

\* the operations that emit or allocate, offered while the stream is shorter than n
Build(n) ==
    \/ CanEmit(n) /\ CanAllocate /\ \E cls \in BlockValueClasses : New(cls, 0)
    \/ CanAllocate /\ Import("RemoteElement")
    \/ CanEmit(n) /\ LoopControl("BreakLoop")
    \/ CanEnter(n) /\ \E c \in ProxiesOf({"RemoteBool"}) : EnterIf(c)
    \/ CanEnter(n) /\ EnterElse
    \/ CanEnter(n) /\ \E c \in ProxiesOf({"RemoteBool"}) :
                        EnterWhile("existing", c, Literal("bool", 0))
    \/ CanEnter(n) /\ CanAllocate /\ EnterWhile("newBool", Literal("bool", 1), Literal("bool", 1))
    \/ CanEnter(n) /\ CanAllocate /\ \E i \in ProxiesOf({"RemoteInt"}) :
                        EnterWhile("lessThan", i, Literal("int", 1))
    \/ CanEnter(n) /\ EnterTry
    \/ CanEnter(n) /\ EnterCatch

Close ==
    \/ ExitIf
    \/ ExitElse
    \/ ExitWhile
    \/ ExitTry
    \/ ExitCatch

NextBlocks == Build(MaxInstr) \/ Close

Spec == Init /\ [][NextBlocks]_vars

\* the same, shorter, with execute(); the engine answers Success or
\* ExecutionFailure here, its other answers are taken up in SpecRun
NextExec ==
    \/ Build(MaxExecInstr)
    \/ Close
    \/ /\ Len(submitted) < MaxExecute
       /\ \E st \in {"Success", "ExecutionFailure"} : Execute(st, 0, {})

SpecExec == Init /\ [][NextExec]_vars

\* execute() with every answer the engine can give, and getResult
OperandsIssued == 1 .. (operandIdGen - 1)

\* the result tables tried: none of the operands, all of them, all but the newest
ResultTables == {{}, OperandsIssued, OperandsIssued \ {operandIdGen - 1}}

NextRun ==
    \/ CanEmit(MaxRunInstr) /\ CanAllocate /\ New("RemoteBool", 0)
    \/ CanEnter(MaxRunInstr) /\ \E c \in ProxiesOf({"RemoteBool"}) : EnterIf(c)
    \/ CanEnter(MaxRunInstr) /\ EnterElse
    \/ ExitIf
    \/ ExitElse
    \/ /\ Len(submitted) < MaxExecute
       /\ \E st \in Statuses : \E operands \in ResultTables :
            \E loc \in (IF st = "UnhandledException" THEN 0 .. Len(instructions) ELSE {0}) :
                Execute(st, loc, operands)
    \/ \E p \in proxies : GetResult(p)

SpecRun == Init /\ [][NextRun]_vars

\* execute() called again and again on one builder, with the caller's own
\* halt(), also inside an If at the end of the program
NextAgain ==
    \/ CanEmit(MaxAgainInstr) /\ CanAllocate /\ New("RemoteBool", 0)
    \/ CanEnter(MaxAgainInstr) /\ \E c \in ProxiesOf({"RemoteBool"}) : EnterIf(c)
    \/ ExitIf
    \/ CanEmit(MaxAgainInstr) /\ HaltOp
    \/ /\ Len(submitted) < MaxAgain
       /\ \E st \in Statuses : Execute(st, 0, {})

SpecAgain == Init /\ [][NextAgain]_vars

----------------------------------------------------------------------------
(* iterExecute(): the iterable functions of the tests, the engine's run of a
   compiled function under its budget of instructions, and the driver's runs *)

builderVars == <<loggingEnabled, instructions, operandIdGen, remotedObjectCache,
                 scopeJustExited, results, proxies, scopeStack, blocks, patchLog,
                 allocLog, ensureLog, lastEvent, lastOp, submitted>>

\* an instruction of a compiled function: dst and src name operands, val is a
\* literal, the name of a third operand or, for Fork and ForkIfFalse, the
\* relative offset of the jump
Instr(op, dst, src, val) == [op |-> op, dst |-> dst, src |-> src, val |-> val]

\* the counting function with Yield after the increment
CountingFunctionYieldingAfter(n) ==
    << Instr("NewInt", "i", "", 0),
       Instr("NewLoopBlock", "", "", 0),
       Instr("CompareLessThan", "condition", "i", n),
       Instr("ForkIfFalse", "", "condition", 4),
       Instr("Add", "i", "", 1),
       Instr("Yield", "", "i", 0),
       Instr("Fork", "", "", -4),
       Instr("EndLoopBlock", "", "", 0),
       Instr("Halt", "", "", 0) >>

\* i = ra.newInt(0)
\* with ra.whileBlock(lambda: i < n): ra.Yield(i); i += 1
CountingFunction(n) ==
    << Instr("NewInt", "i", "", 0),
       Instr("NewLoopBlock", "", "", 0),
       Instr("CompareLessThan", "condition", "i", n),
       Instr("ForkIfFalse", "", "condition", 4),
       Instr("Yield", "", "i", 0),
       Instr("Add", "i", "", 1),
       Instr("Fork", "", "", -4),
       Instr("EndLoopBlock", "", "", 0),
       Instr("Halt", "", "", 0) >>

\* executionCount = ra.newInt(0, static=True); executionCount += 1
\* i = ra.newInt(0, static=True); j = ra.newInt(0, static=True)
\* with ra.whileBlock(lambda: i < n):
\*     with ra.ifBlock(j == period): ra.Yield(i); j.set(0)
\*     i += 1; j += 1
\* ra.Yield(executionCount)
StaticLoopFunction(n, period) ==
    << Instr("NewInt", "executionCount", "", 0),
       Instr("Add", "executionCount", "", 1),
       Instr("NewInt", "i", "", 0),
       Instr("NewInt", "j", "", 0),
       Instr("NewLoopBlock", "", "", 0),
       Instr("CompareLessThan", "condition", "i", n),
       Instr("ForkIfFalse", "", "condition", 8),
       Instr("CompareEqual", "isPeriod", "j", period),
       Instr("ForkIfFalse", "", "isPeriod", 3),
       Instr("Yield", "", "i", 0),
       Instr("Set", "j", "", 0),
       Instr("Add", "i", "", 1),
       Instr("Add", "j", "", 1),
       Instr("Fork", "", "", -8),
       Instr("EndLoopBlock", "", "", 0),
       Instr("Yield", "", "executionCount", 0),
       Instr("Halt", "", "", 0) >>

\* a range helper whose loop also runs for the stop value
RangeFunctionInclusive(start, stop, step) ==
    << Instr("NewInt", "counter", "", start),
       Instr("NewLoopBlock", "", "", 0),
       Instr("CompareLessThan", "condition", "counter", stop + 1),
       Instr("ForkIfFalse", "", "condition", 4),
       Instr("Yield", "", "counter", 0),
       Instr("Add", "counter", "", step),
       Instr("Fork", "", "", -4),
       Instr("EndLoopBlock", "", "", 0),
       Instr("Halt", "", "", 0) >>

\* with ra.forEachNumInRange(start, stop, step) as i: ra.Yield(i)
\* the helper makes a counter that starts at start, and a While that runs
\* the body and then adds step while the counter is below stop
RangeFunction(start, stop, step) ==
    << Instr("NewInt", "counter", "", start),
       Instr("NewLoopBlock", "", "", 0),
       Instr("CompareLessThan", "condition", "counter", stop),
       Instr("ForkIfFalse", "", "condition", 4),
       Instr("Yield", "", "counter", 0),
       Instr("Add", "counter", "", step),
       Instr("Fork", "", "", -4),
       Instr("EndLoopBlock", "", "", 0),
       Instr("Halt", "", "", 0) >>

\* array = ra.newArray()
\* with ra.forEachNumInRange(start, stop, step) as i: array.append(i)
\* with ra.forEachItemInArray(array) as item: ra.Yield(item)
\* forEachItemInArray makes an index that starts at 0, and a While that takes
\* the item at the index, runs the body and adds 1 while the index is below
\* the size of the array
ArrayRangeFunction(start, stop, step) ==
    << Instr("NewArray", "array", "", 0),
       Instr("NewInt", "counter", "", start),
       Instr("NewLoopBlock", "", "", 0),
       Instr("CompareLessThan", "condition", "counter", stop),
       Instr("ForkIfFalse", "", "condition", 4),
       Instr("ArrayAppend", "array", "counter", 0),
       Instr("Add", "counter", "", step),
       Instr("Fork", "", "", -4),
       Instr("EndLoopBlock", "", "", 0),
       Instr("NewInt", "index", "", 0),
       Instr("NewLoopBlock", "", "", 0),
       Instr("ArraySize", "size", "array", 0),
       Instr("CompareLessThanOperand", "condition", "index", "size"),
       Instr("ForkIfFalse", "", "condition", 5),
       Instr("ArrayGetAt", "item", "array", "index"),
       Instr("Yield", "", "item", 0),
       Instr("Add", "index", "", 1),
       Instr("Fork", "", "", -6),
       Instr("EndLoopBlock", "", "", 0),
       Instr("Halt", "", "", 0) >>

\* a function whose loop never completes:
\* i = ra.newInt(0)
\* with ra.whileBlock(lambda: ra.newBool(True)): ra.Yield(i); i += 1
EndlessFunction ==
    << Instr("NewInt", "i", "", 0),
       Instr("NewLoopBlock", "", "", 0),
       Instr("NewInt", "condition", "", 1),
       Instr("ForkIfFalse", "", "condition", 4),
       Instr("Yield", "", "i", 0),
       Instr("Add", "i", "", 1),
       Instr("Fork", "", "", -4),
       Instr("EndLoopBlock", "", "", 0),
       Instr("Halt", "", "", 0) >>

Counting(n) == [name |-> "counting", start |-> 0, n |-> n, step |-> 1, period |-> 0]
StaticLoop(n, period) ==
    [name |-> "staticLoop", start |-> 0, n |-> n, step |-> 1, period |-> period]
Range(start, stop, step) ==
    [name |-> "range", start |-> start, n |-> stop, step |-> step, period |-> 0]
ArrayRange(start, stop, step) ==
    [name |-> "arrayRange", start |-> start, n |-> stop, step |-> step, period |-> 0]
Endless == [name |-> "endless", start |-> 0, n |-> 0, step |-> 1, period |-> 0]

\* the instructions of the function as the builder function emits them
Program(function) ==
    CASE function.name = "counting" -> CountingFunction(function.n)
      [] function.name = "staticLoop" -> StaticLoopFunction(function.n, function.period)
      [] function.name = "range" -> RangeFunction(function.start, function.n, function.step)
      [] function.name = "arrayRange" ->
            ArrayRangeFunction(function.start, function.n, function.step)
      [] function.name = "endless" -> EndlessFunction

\* every variable declared static, whatever the function says
DeclaredStaticsEvery(function) == [x \in {"executionCount", "i", "j"} |-> 0]

\* the static variables a function declares, with their declared initial values
DeclaredStatics(function) ==
    IF function.name = "staticLoop"
    THEN [x \in {"executionCount", "i", "j"} |-> 0]
    ELSE [x \in {} |-> 0]

\* the initialiser of a static variable: the variable gets its value from the
\* static-variable table, not from an instruction of the run
IsStaticInitialiser(function, ins) ==
    ins.op = "NewInt" /\ ins.dst \in DOMAIN DeclaredStatics(function)

\* the instructions every run executes: compiled once, the same for every run
Code(function) ==
    SelectSeq(Program(function), LAMBDA ins : ~IsStaticInitialiser(function, ins))

OperandNames == {"i", "j", "executionCount", "condition", "isPeriod",
                 "counter", "array", "index", "size", "item"}

\* the operands at the start of a run: the static ones hold what the
\* static-variable table holds, the others are made by the run itself
Seeded(statics) ==
    [x \in OperandNames |-> IF x \in DOMAIN statics THEN statics[x] ELSE 0]

\* the values of the static variables among the engine's operands
StaticValues(statics, operands) == [x \in DOMAIN statics |-> operands[x]]

\* a read-back that puts the declared values in the table again
ReadBackDeclared(statics, operands) == [x \in DOMAIN statics |-> 0]

\* after a run: the final value of every static variable, read from the
\* result table, is the table's entry for the next run
ReadBack(statics, operands) == StaticValues(statics, operands)

\* a delivery that puts the newest batch in front
DeliverInFront(delivered, batch) == batch \o delivered

\* the batch of a run follows what the earlier runs delivered
Deliver(delivered, batch) == delivered \o batch

\* the engine executes one instruction
RunInstruction(r, ins) ==
    LET next == [r EXCEPT !.pc = @ + 1, !.executed = @ + 1]
    IN  CASE ins.op \in {"NewInt", "Set"} ->
                [next EXCEPT !.operands[ins.dst] = ins.val]
          [] ins.op = "Add" ->
                [next EXCEPT !.operands[ins.dst] = @ + ins.val]
          [] ins.op = "CompareLessThan" ->
                [next EXCEPT !.operands[ins.dst] = IF r.operands[ins.src] < ins.val THEN 1 ELSE 0]
          [] ins.op = "CompareEqual" ->
                [next EXCEPT !.operands[ins.dst] = IF r.operands[ins.src] = ins.val THEN 1 ELSE 0]
          [] ins.op = "CompareLessThanOperand" ->
                [next EXCEPT !.operands[ins.dst] =
                    IF r.operands[ins.src] < r.operands[ins.val] THEN 1 ELSE 0]
          [] ins.op = "NewArray" ->
                [next EXCEPT !.operands[ins.dst] = <<>>]
          [] ins.op = "ArrayAppend" ->
                [next EXCEPT !.operands[ins.dst] = Append(@, r.operands[ins.src])]
          [] ins.op = "ArraySize" ->
                [next EXCEPT !.operands[ins.dst] = Len(r.operands[ins.src])]
          [] ins.op = "ArrayGetAt" ->
                [next EXCEPT !.operands[ins.dst] =
                    r.operands[ins.src][r.operands[ins.val] + 1]]
          [] ins.op = "ForkIfFalse" ->
                [next EXCEPT !.pc = IF r.operands[ins.src] = 0 THEN r.pc + ins.val ELSE r.pc + 1]
          [] ins.op = "Fork" ->
                [next EXCEPT !.pc = r.pc + ins.val]
          [] ins.op = "Yield" ->
                [next EXCEPT !.batch = Append(@, r.operands[ins.src])]
          [] OTHER -> next

CurrentInstruction == Code(iteration.function)[run.pc]

\* a driver that makes one run more than maxTries
MayRunOnceMore == driver.runs <= iteration.maxTries

\* the run-budget loop goes on while fewer than maxTries runs were made
MayRun == driver.runs < iteration.maxTries

\* the driver starts a run: the same compiled function from its first
\* instruction, the static variables seeded from the table
StartRun ==
    /\ driver.phase = "ready"
    /\ MayRun
    /\ driver' = [driver EXCEPT !.phase = "running", !.runs = @ + 1]
    /\ run' = [pc |-> 1, executed |-> 0, operands |-> Seeded(driver.statics), batch |-> <<>>,
               start |-> StaticValues(driver.statics, Seeded(driver.statics))]
    /\ UNCHANGED <<builderVars, iteration, runLog, yieldLog>>

\* the engine executes the next instruction of the run
ExecuteInstruction ==
    /\ driver.phase = "running"
    /\ run.executed < iteration.budget
    /\ CurrentInstruction.op # "Halt"
    /\ run' = RunInstruction(run, CurrentInstruction)
    /\ yieldLog' = IF CurrentInstruction.op = "Yield"
                   THEN Append(yieldLog, run.operands[CurrentInstruction.src])
                   ELSE yieldLog
    /\ UNCHANGED <<builderVars, iteration, driver, runLog>>

\* the run is over: its batch is delivered and the static variables are read back
EndRun(status, phase) ==
    /\ driver' = [driver EXCEPT !.phase = phase,
                                !.statics = ReadBack(@, run.operands),
                                !.delivered = Deliver(@, run.batch)]
    /\ runLog' = Append(runLog, [status |-> status,
                                 start |-> run.start,
                                 end |-> StaticValues(driver.statics, run.operands),
                                 batch |-> run.batch,
                                 final |-> run.operands,
                                 stoppedAt |-> run.pc])
    /\ run' = NoRun
    /\ UNCHANGED <<builderVars, iteration, yieldLog>>

\* the run reaches Halt within the budget: the iteration is complete
RunSucceeds ==
    /\ driver.phase = "running"
    /\ run.executed < iteration.budget
    /\ CurrentInstruction.op = "Halt"
    /\ EndRun("Success", "done")

\* the budget of the run is used up before Halt: InstructionLimitExceeded
RunExceedsLimit ==
    /\ driver.phase = "running"
    /\ run.executed >= iteration.budget
    /\ EndRun("InstructionLimitExceeded", "ready")

\* a driver that never tells the consumer that the runs are used up
StopExhaustedUnsignalled ==
    /\ driver.phase = "ready"
    /\ ~MayRun
    /\ UNCHANGED vars

\* maxTries runs were made and none completed: the iteration stops, no error
StopExhausted ==
    /\ driver.phase = "ready"
    /\ ~MayRun
    /\ driver' = [driver EXCEPT !.phase = "exhausted"]
    /\ UNCHANGED <<builderVars, iteration, run, runLog, yieldLog>>

IterableFunctions ==
    {Counting(n) : n \in 0 .. MaxCount}
      \cup {StaticLoop(n, period) : n \in 0 .. MaxCount, period \in 1 .. MaxPeriod}

\* op.iterExecute(maxTries) on a built iterable function
InitIter ==
    /\ InitBuilder
    /\ loggingEnabled = FALSE
    /\ iteration \in [function : IterableFunctions, maxTries : 0 .. MaxTries,
                       budget : 1 .. MaxBudget]
    /\ driver = [phase |-> "ready", runs |-> 0,
                 statics |-> DeclaredStatics(iteration.function), delivered |-> <<>>]
    /\ run = NoRun
    /\ runLog = <<>>
    /\ yieldLog = <<>>

NextIter ==
    \/ StartRun
    \/ ExecuteInstruction
    \/ RunSucceeds
    \/ RunExceedsLimit
    \/ StopExhausted

SpecIter == InitIter /\ [][NextIter]_vars

\* the driver started on the functions `functions`
Iterating(functions, tries, budgets) ==
    /\ InitBuilder
    /\ loggingEnabled = FALSE
    /\ iteration \in [function : functions, maxTries : tries, budget : budgets]
    /\ driver = [phase |-> "ready", runs |-> 0,
                 statics |-> DeclaredStatics(iteration.function), delivered |-> <<>>]
    /\ run = NoRun
    /\ runLog = <<>>
    /\ yieldLog = <<>>

\* the same with a function whose loop never completes; the driver and the
\* engine are sequential code, so a step that can be taken is taken
InitLive == Iterating(IterableFunctions \cup {Endless}, 0 .. MaxTries, 1 .. MaxBudget)

SpecLive == InitLive /\ [][NextIter]_vars /\ WF_vars(NextIter)

\* the range helper: the ranges of the tests and small ones, under budgets
\* that stop a run early and under one that lets the tests' functions finish
RangeStarts == (0 .. MaxStart) \cup {RangeTestStart}
RangeStops == (0 .. MaxStop) \cup {RangeTestStop, ArrayTestStop}
RangeSteps == (1 .. MaxStep) \cup {ArrayTestStep}
RangeBudgets == (1 .. MaxRangeBudget) \cup {FullBudget}

RangeFunctions ==
    {Range(start, stop, step) : start \in RangeStarts, stop \in RangeStops, step \in RangeSteps}
      \cup {ArrayRange(start, stop, step) :
                start \in RangeStarts, stop \in RangeStops, step \in RangeSteps}

InitRange == Iterating(RangeFunctions, 0 .. MaxRangeTries, RangeBudgets)

SpecRange == InitRange /\ [][NextIter]_vars

----------------------------------------------------------------------------
(* Reading the stream and the block history *)

TypeAt(i) == instructions[i + 1].instructionType
OffsetAt(i, p) == instructions[i + 1].params[p + 1].v
TargetAt(i, p) == i + OffsetAt(i, p)

IsClosed(b) == blocks[b].end # -1
BlocksOf(cls) == {b \in DOMAIN blocks : blocks[b].cls = cls}
ClosedOf(cls) == {b \in BlocksOf(cls) : IsClosed(b)}

\* the Else (Catch) blocks entered directly after the If (Try) block b
Followers(b) == {e \in DOMAIN blocks : blocks[e].cls \in {"Else", "Catch"}
                                       /\ blocks[e].pred = blocks[b].start}

\* block n lies in the body of block b
NestedIn(n, b) == /\ IsClosed(n) /\ IsClosed(b)
                  /\ blocks[b].bodyStart <= blocks[n].start
                  /\ blocks[n].end <= blocks[b].bodyEnd

WriteCount(i, p) ==
    Cardinality({w \in DOMAIN patchLog : patchLog[w].index = i /\ patchLog[w].pos = p})

----------------------------------------------------------------------------
(* C1: once an If block is closed, its ForkIfFalse lands on the first slot
   after the If body when no Else follows and on the first instruction of
   the Else body when an Else follows; the Fork of a closed Else lands on
   the first slot after the Else body. *)
IfElseTargets ==
    /\ \A b \in ClosedOf("If") :
          /\ TypeAt(blocks[b].start) = "ForkIfFalse"
          /\ IF Followers(b) = {}
             THEN TargetAt(blocks[b].start, 1) = blocks[b].end
             ELSE \A e \in Followers(b) :
                     TargetAt(blocks[b].start, 1) = blocks[e].bodyStart
    /\ \A e \in ClosedOf("Else") :
          /\ TypeAt(blocks[e].start) = "Fork"
          /\ blocks[e].bodyStart = blocks[e].start + 1
          /\ TargetAt(blocks[e].start, 0) = blocks[e].end

\* an If with a block nested in its body, followed by an Else with a block nested in it
IfElseTargetsWitness ==
    \E b \in ClosedOf("If") : \E e \in ClosedOf("Else") :
        /\ e \in Followers(b)
        /\ \E n \in DOMAIN blocks : NestedIn(n, b)
        /\ \E n \in DOMAIN blocks : NestedIn(n, e)
        /\ scopeStack = <<>>

(* C2: for every closed While, the break offset of its NewLoopBlock lands on
   the slot immediately after the loop's EndLoopBlock. *)
WhileBreakTarget ==
    \A b \in ClosedOf("While") :
        /\ TypeAt(blocks[b].start) = "NewLoopBlock"
        /\ TypeAt(blocks[b].end - 1) = "EndLoopBlock"
        /\ TargetAt(blocks[b].start, 0) = blocks[b].end

\* a closed loop whose body holds a closed loop
WhileBreakTargetWitness ==
    \E b \in ClosedOf("While") : \E n \in ClosedOf("While") :
        /\ NestedIn(n, b)
        /\ blocks[b].bodyStart > blocks[b].start + 2

(* C3 as stated: the Fork that closes a While body lands on the loop's
   NewLoopBlock instruction. *)
WhileClosingForkOnLoopBlock ==
    \A b \in ClosedOf("While") :
        /\ TypeAt(blocks[b].bodyEnd) = "Fork"
        /\ TargetAt(blocks[b].bodyEnd, 0) = blocks[b].start

(* C3 as amended: the Fork that closes a While body lands on the
   instruction right after the loop's NewLoopBlock, the first instruction
   of the condition (the loop's ForkIfFalse when the condition emitted
   nothing), which is also where the continue offset of NewLoopBlock points. *)
WhileClosingForkTarget ==
    \A b \in ClosedOf("While") :
        /\ TypeAt(blocks[b].bodyEnd) = "Fork"
        /\ TargetAt(blocks[b].bodyEnd, 0) = blocks[b].start + 1
        /\ TargetAt(blocks[b].bodyEnd, 0) = TargetAt(blocks[b].start, 1)

\* a closed loop with a condition of two instructions and a body
WhileClosingForkWitness ==
    \E b \in ClosedOf("While") :
        /\ blocks[b].bodyStart = blocks[b].start + 4
        /\ blocks[b].bodyEnd > blocks[b].bodyStart

(* C4: the catch offset of a closed Try lands just past its EndTryBlock when
   no Catch follows and on the first instruction of the Catch body when a
   Catch follows; the Fork of a closed Catch lands on the first slot after
   the Catch body. *)
TryCatchTargets ==
    /\ \A b \in ClosedOf("Try") :
          /\ TypeAt(blocks[b].start) = "NewTryBlock"
          /\ TypeAt(blocks[b].end - 1) = "EndTryBlock"
          /\ IF Followers(b) = {}
             THEN TargetAt(blocks[b].start, 0) = blocks[b].end
             ELSE \A e \in Followers(b) :
                     TargetAt(blocks[b].start, 0) = blocks[e].bodyStart
    /\ \A e \in ClosedOf("Catch") :
          /\ TypeAt(blocks[e].start) = "Fork"
          /\ blocks[e].bodyStart = blocks[e].start + 1
          /\ TargetAt(blocks[e].start, 0) = blocks[e].end

\* a Try with a body, followed by a Catch with a block nested in it
TryCatchTargetsWitness ==
    \E b \in ClosedOf("Try") : \E e \in ClosedOf("Catch") :
        /\ e \in Followers(b)
        /\ blocks[b].bodyEnd > blocks[b].bodyStart
        /\ \E n \in DOMAIN blocks : NestedIn(n, e)

(* C5: entering an Else succeeds exactly when the most recent emission,
   scope entry or scope exit of the builder was the exit of an If scope,
   and raises the structural error otherwise; likewise Catch and Try. *)
ElseCatchAdjacency ==
    /\ lastOp.op = "elseBlock" =>
          /\ lastOp.err \in {"none", "RuntimeError"}
          /\ lastOp.err = "none" <=> lastOp.eventBefore = "If"
    /\ lastOp.op = "catchBlock" =>
          /\ lastOp.err \in {"none", "RuntimeError"}
          /\ lastOp.err = "none" <=> lastOp.eventBefore = "Try"

\* an Else refused because an instruction was emitted after the If closed
ElseCatchAdjacencyWitness ==
    /\ lastOp.op = "elseBlock"
    /\ lastOp.err = "RuntimeError"
    /\ lastOp.eventBefore = "instruction"
    /\ \E b \in ClosedOf("If") : Followers(b) = {} /\ blocks[b].end < Len(instructions)

(* Relative offsets at execute() *)

\* the (index, position) pairs of the RelativeOffset parameters of the stream
OffsetSlots ==
    {ip \in (0 .. Len(instructions) - 1) \X (0 .. 1) :
        /\ ip[2] < Len(instructions[ip[1] + 1].params)
        /\ instructions[ip[1] + 1].params[ip[2] + 1].k = "RelativeOffset"}

ExecutedAllClosed == lastOp.op = "execute" /\ scopeStack = <<>>

\* the Fork that closes the body of a While
IsClosingFork(i) == \E b \in ClosedOf("While") : blocks[b].bodyEnd = i

\* an Else or Catch was entered directly after the block opened at index i
HasFollower(i) == \E e \in DOMAIN blocks :
                      blocks[e].cls \in {"Else", "Catch"} /\ blocks[e].pred = i

(* C6 as stated: when execute() is called with every opened scope closed,
   every relative offset of the stream has been written by backpatching
   exactly once since its emission and is at least 1. *)
OffsetsPatchedExactlyOnce ==
    ExecutedAllClosed =>
        \A ip \in OffsetSlots :
            /\ WriteCount(ip[1], ip[2]) = 1
            /\ OffsetAt(ip[1], ip[2]) >= 1

(* C6 as amended: when execute() is called with every opened scope closed,
   the offset of every ForkIfFalse and NewTryBlock is at least 1 and was
   written once by its block's exit, and once more when an Else or Catch
   followed; the break offset of every NewLoopBlock and the offset of every
   Else or Catch Fork is at least 1 and was written exactly once; the
   continue offset of NewLoopBlock is never written and keeps the 1 it was
   emitted with; the Fork closing a While body is never written and keeps
   the negative offset it was emitted with. *)
OffsetsResolved ==
    ExecutedAllClosed =>
        \A ip \in OffsetSlots :
            LET i == ip[1]
                p == ip[2]
                w == WriteCount(i, p)
                v == OffsetAt(i, p)
            IN  CASE TypeAt(i) \in {"ForkIfFalse", "NewTryBlock"} ->
                        v >= 1 /\ w = (IF HasFollower(i) THEN 2 ELSE 1)
                  [] TypeAt(i) = "NewLoopBlock" /\ p = 0 -> v >= 1 /\ w = 1
                  [] TypeAt(i) = "NewLoopBlock" /\ p = 1 -> v = 1 /\ w = 0
                  [] TypeAt(i) = "Fork" /\ IsClosingFork(i) -> v <= -1 /\ w = 0
                  [] TypeAt(i) = "Fork" /\ ~IsClosingFork(i) -> v >= 1 /\ w = 1
                  [] OTHER -> FALSE

\* execute() on a stream holding a closed If with its closed Else
OffsetsResolvedWitness ==
    /\ ExecutedAllClosed
    /\ \E b \in ClosedOf("If") : \E e \in ClosedOf("Else") :
          e \in Followers(b) /\ WriteCount(blocks[b].start, 1) = 2

----------------------------------------------------------------------------------------------------------------------------------------
(* The builder driven through operations on proxies *)

OpsOpen == Len(instructions) < MaxOpInstr /\ Len(allocLog) < MaxOpOperand

OpValueClasses == {"RemoteInt", "RemoteString", "RemoteVariant"}
Ints == ProxiesOf({"RemoteInt"})
Strings == ProxiesOf({"RemoteString"})
Variants == ProxiesOf({"RemoteVariant"})
Targets == ProxiesOf({"RemoteElement", "RemoteTextRange", "RemoteExtensionTarget"})
AnInt == {Literal("int", 1)}

NextOps ==
    \/ OpsOpen /\ \E cls \in OpValueClasses : New(cls, 0)
    \/ OpsOpen /\ \E cls \in {"RemoteElement", "RemoteTextRange"} : Import(cls)
    \/ OpsOpen /\ \E self \in Ints : \E value \in {self, Literal("int", 1), Literal("float", 0)} :
                    SetOp(self, value)
    \/ OpsOpen /\ \E self \in Ints : StringifyOp(self)
    \/ OpsOpen /\ \E self \in Ints : \E other \in {self} \cup IntLiterals \cup EnumLiterals :
                    CompareOp(self, "LessThan", other)
    \/ OpsOpen /\ \E self \in Ints : \E other \in {self} \cup AnInt :
                    BinaryOp(self, "BinaryAdd", other)
    \/ OpsOpen /\ \E self \in Ints : \E other \in {self} \cup AnInt :
                    InplaceOp(self, "Add", other)
    \/ OpsOpen /\ \E self \in Strings :
                    \E other \in {self, Literal("str", 1), Literal("int", 1)} \cup Ints :
                        StringAddOp(self, other)
    \/ OpsOpen /\ \E self \in Strings : \E other \in {Literal("str", 1)} \cup Ints :
                    StringIAddOp(self, other)
    \/ OpsOpen /\ \E self \in Variants \cup Targets : IsNullOp(self)
    \/ OpsOpen /\ \E self \in Variants : \E cls \in {"RemoteInt", "RemoteTextRange"} :
                    IsTypeOp(self, cls)
    \/ OpsOpen /\ \E self \in Variants : AsTypeOp(self, "RemoteInt")
    \/ OpsOpen /\ \E self \in Targets : \E g \in GuidLiterals : IsExtensionSupportedOp(self, g)
    \/ OpsOpen /\ \E self \in Targets : \E ps \in {<<>>, <<self>>} :
                    CallExtensionOp(self, Literal("GUID", 0), ps)
    \/ OpsOpen /\ \E self \in ProxiesOf({"RemoteElement"}) :
                    GetPropertyValueOp(self, Literal("int", 1), Literal("bool", 0))
    \/ OpsOpen /\ \E st \in AnInt \cup Ints : SetOperationStatusOp(st)
    \/ OpsOpen /\ GetOperationStatusOp

SpecOps == Init /\ [][NextOps]_vars

----------------------------------------------------------------------------
(* C7 as stated: materialising the same literal twice through
   _ensureRemoteObject with useCache returns the same operand id both times
   and appends one construction instruction in total. *)
ConstantCacheIdempotent ==
    \A i, j \in DOMAIN ensureLog :
        (i < j /\ ensureLog[i].lit = ensureLog[j].lit) =>
            /\ ensureLog[j].id = ensureLog[i].id
            /\ ensureLog[j].added = 0

(* C8: the operand ids one builder issues start at 1 and strictly increase;
   none is issued twice, 0 is never issued, and every proxy handed out
   holds an id that was issued. *)
OperandIdsIncreasing ==
    /\ allocLog # <<>> => allocLog[1] = 1
    /\ \A i \in DOMAIN allocLog : allocLog[i] >= 1
    /\ \A i, j \in DOMAIN allocLog : i < j => allocLog[i] < allocLog[j]
    /\ \A p \in proxies : \E i \in DOMAIN allocLog : allocLog[i] = p.v

\* ids issued by construction, by a result and by an import that adds no instruction
OperandIdsIncreasingWitness ==
    /\ lastOp.op = "importElement"
    /\ Len(allocLog) >= 3
    /\ Len(instructions) >= 2
    /\ lastOp.result = allocLog[Len(allocLog)]

ObservableOps == {"set", "stringify", "compare", "binaryOp", "inplaceOp", "concat",
                  "isNull", "isType", "isExtensionSupported", "callExtension",
                  "getPropertyValue"}

\* the instruction an operation exists to emit
OwnInstructions(op) ==
    CASE op = "set" -> {"Set"}
      [] op = "stringify" -> {"Stringify"}
      [] op = "compare" -> {"Compare"}
      [] op = "binaryOp" -> {"BinaryAdd", "BinarySubtract", "BinaryMultiply", "BinaryDivide"}
      [] op = "inplaceOp" -> {"Add", "Subtract", "Multiply", "Divide"}
      [] op = "concat" -> {"RemoteStringConcat"}
      [] op = "isNull" -> {"IsNull"}
      [] op = "isType" -> {"IsInt", "IsBool", "IsString", "IsElement", "IsGuid"}
      [] op = "isExtensionSupported" -> {"IsExtensionSupported"}
      [] op = "callExtension" -> {"CallExtension"}
      [] op = "getPropertyValue" -> {"GetPropertyValue"}
      [] OTHER -> {}

\* the instructions that only make an operand ready
Materialising == {"NewInt", "NewBool", "NewString", "NewGuid", "Stringify"}

AddedByLastOp == Len(instructions) - lastOp.lenBefore

(* C9 as stated: every observable operation on a proxy other than the
   narrowing cast appends exactly one instruction. *)
EveryOperationEmitsOne ==
    (lastOp.op \in ObservableOps /\ lastOp.err = "none") => AddedByLastOp = 1

(* C9 as amended: every observable operation on a proxy other than the
   narrowing cast appends exactly one instruction of its own kind, as the
   last one it appends; before it come only instructions that make operands
   ready: at most one New<Type> per literal operand, one NewBool for the
   result of isNull and of isType, one Stringify for a proxy concatenated
   that is no string.  With proxies for operands, isNull and isType append
   exactly two instructions and every other operation exactly one. *)
OperationEmissions ==
    (lastOp.op \in ObservableOps /\ lastOp.err = "none") =>
        LET extra == (IF lastOp.op \in {"isNull", "isType"} THEN 1 ELSE 0) + lastOp.converted
        IN  /\ AddedByLastOp >= 1
            /\ TypeAt(Len(instructions) - 1) \in OwnInstructions(lastOp.op)
            /\ \A i \in lastOp.lenBefore .. Len(instructions) - 2 : TypeAt(i) \in Materialising
            /\ AddedByLastOp <= 1 + extra + lastOp.literals
            /\ lastOp.literals = 0 => AddedByLastOp = 1 + extra

\* isNull on a proxy: NewBool, then IsNull
OperationEmissionsWitness ==
    /\ lastOp.op = "isNull"
    /\ lastOp.err = "none"
    /\ AddedByLastOp = 2
    /\ TypeAt(Len(instructions) - 2) = "NewBool"

(* C10: narrowing a variant with asType appends no instruction, issues no
   operand id, and returns a proxy of the class asked for that holds the
   variant's operand id; the stream, the id generator and the cache are as
   they were. *)
AsTypeFrame ==
    [][lastOp'.op = "asType" =>
          /\ instructions' = instructions
          /\ operandIdGen' = operandIdGen
          /\ allocLog' = allocLog
          /\ remotedObjectCache' = remotedObjectCache
          /\ lastOp'.result = lastOp'.self
          /\ \E p \in proxies' : p.v = lastOp'.self /\ p.cls # "RemoteVariant"]_vars

\* a variant narrowed to RemoteInt: two proxies on one operand id
AsTypeFrameWitness ==
    /\ lastOp.op = "asType"
    /\ instructions # <<>>
    /\ Proxy("RemoteVariant", lastOp.self) \in proxies
    /\ Proxy("RemoteInt", lastOp.self) \in proxies

----------------------------------------------------------------------------
(* Reading the programs handed to the engine *)

\* the opcodes of a serialised program, in the order they are encoded
Opcodes(program) ==
    LET cells == SelectSeq(program, LAMBDA c : c.cell = "opcode")
    IN  [i \in 1 .. Len(cells) |-> cells[i].t]

\* the opcodes of the records of the stream, in emission order
StreamTypes(ins) == [i \in 1 .. Len(ins) |-> ins[i].instructionType]

LastSubmitted == submitted[Len(submitted)]

\* this step is a call of execute()
ExecuteStep == lastOp'.op = "execute" /\ lastOp' # lastOp

(* C11: every call of execute() appends one Halt to the stream, hands the
   engine exactly one program, whose last instruction is that Halt, and does
   so whatever status the engine answers: the programs handed over before
   stay as they were and a failing status adds no second call. *)
ExecuteCallsEngineOnce ==
    [][ExecuteStep =>
          /\ instructions' = Append(instructions, InstructionRecord("Halt", <<>>))
          /\ Len(submitted') = Len(submitted) + 1
          /\ SubSeq(submitted', 1, Len(submitted)) = submitted
          /\ LET ops == Opcodes(submitted'[Len(submitted')])
             IN  ops # <<>> /\ ops[Len(ops)] = "Halt"]_vars

\* a second execute() that failed: two calls of the engine in all
ExecuteCallsEngineOnceWitness ==
    /\ lastOp.op = "execute"
    /\ lastOp.err = "ExecutionFailureException"
    /\ Len(submitted) = 2
    /\ Len(instructions) > 2

(* C12: after execute() the outcome is fixed by the status the engine
   answered: Success returns normally and leaves the result table in place,
   MalformedBytecode raises MalformedBytecodeException,
   InstructionLimitExceeded raises InstructionLimitExceededException,
   UnhandledException raises RemoteException and ExecutionFailure raises
   ExecutionFailureException; no status other than Success returns normally. *)
StatusOutcomes ==
    lastOp.op = "execute" =>
        /\ results # NoResults
        /\ results.status \in Statuses
        /\ (lastOp.err = "none") <=> (results.status = "Success")
        /\ (lastOp.err = "MalformedBytecodeException") <=> (results.status = "MalformedBytecode")
        /\ (lastOp.err = "InstructionLimitExceededException")
              <=> (results.status = "InstructionLimitExceeded")
        /\ (lastOp.err = "RemoteException") <=> (results.status = "UnhandledException")
        /\ (lastOp.err = "ExecutionFailureException") <=> (results.status = "ExecutionFailure")

\* an execute() the engine answered with ExecutionFailure
StatusOutcomesWitness ==
    /\ lastOp.op = "execute"
    /\ results.status = "ExecutionFailure"
    /\ lastOp.err = "ExecutionFailureException"
    /\ proxies # {}

(* C13 as stated: getResult returns a value only when the most recent
   execute() ended with Success and the proxy's operand id is in its result
   table, and fails otherwise. *)
GetResultNeedsSuccess ==
    lastOp.op = "getResult" =>
        ((lastOp.err = "none")
            <=> (results.status = "Success" /\ lastOp.self \in results.operands))

(* C13: getResult fails with RuntimeError exactly when no execute() has
   stored an answer of the engine yet, fails with LookupError when the result
   table of the most recent execute() does not hold the proxy's operand id,
   and otherwise returns the table's value for that operand, whatever the
   status of that execute() was. *)
GetResultNeedsExecute ==
    /\ (results = NoResults) <=> (submitted = <<>>)
    /\ lastOp.op = "getResult" =>
          /\ (lastOp.err = "RuntimeError") <=> (submitted = <<>>)
          /\ (lastOp.err = "LookupError")
                <=> (submitted # <<>> /\ lastOp.self \notin results.operands)
          /\ (lastOp.err = "none")
                <=> (submitted # <<>> /\ lastOp.self \in results.operands)
          /\ lastOp.err = "none" => lastOp.result = lastOp.self

\* a value read from the table of an execute() that raised
GetResultNeedsExecuteWitness ==
    /\ lastOp.op = "getResult"
    /\ lastOp.err = "none"
    /\ results.status = "UnhandledException"

(* C14: the program execute() hands to the engine holds, after the version,
   one encoded instruction per record of the stream, in emission order: its
   i-th opcode is the opcode of the i-th record, also when offsets of the
   records were backpatched. *)
EncodingFollowsEmission ==
    lastOp.op = "execute" =>
        /\ Head(LastSubmitted).cell = "version"
        /\ Opcodes(LastSubmitted) = StreamTypes(instructions)

\* a program with a backpatched If and Else
EncodingFollowsEmissionWitness ==
    /\ lastOp.op = "execute"
    /\ ClosedOf("If") # {}
    /\ ClosedOf("Else") # {}
    /\ Len(Opcodes(LastSubmitted)) >= 4

(* C15: when the engine answers UnhandledException with failing index k,
   the RemoteException of execute() reports k and the record at position k
   (counted from 0) of the stream, which is the record encoded as the k-th
   instruction of the program handed to the engine. *)
ErrorLocationRecord ==
    (lastOp.op = "execute" /\ results.status = "UnhandledException") =>
        /\ lastOp.err = "RemoteException"
        /\ lastOp.result = results.errorLocation
        /\ lastOp.record = instructions[results.errorLocation + 1]
        /\ lastOp.record.instructionType
              = Opcodes(LastSubmitted)[results.errorLocation + 1]

\* a failure at the second of at least three instructions
ErrorLocationRecordWitness ==
    /\ lastOp.op = "execute"
    /\ results.status = "UnhandledException"
    /\ results.errorLocation = 1
    /\ Len(instructions) >= 3
    /\ lastOp.record.instructionType # "Halt"

----------------------------------------------------------------------------
(* Reading the runs of iterExecute() *)

IsCounting == iteration.function.name = "counting"
IsStaticLoop == iteration.function.name = "staticLoop"

\* 0, 1, ..., n - 1
CountedValues(n) == [k \in 1 .. n |-> k - 1]

\* the multiples of period above 0 and below n, increasing
PeriodValues(n, period) == [k \in 1 .. ((n - 1) \div period) |-> k * period]

\* run k was stopped by the budget right after a Yield, or between the two
\* increments at the end of the loop body
StoppedMidUpdate(k) ==
    LET code == Code(iteration.function)
        at == runLog[k].stoppedAt
    IN  /\ runLog[k].status = "InstructionLimitExceeded"
        /\ at > 1
        /\ \/ code[at - 1].op = "Yield"
           \/ code[at - 1].op = "Add" /\ code[at].op = "Add"

(* C16: the counting function (yield the counter from 0 while it is below n),
   when its whole execution fits in the budget of one run, delivers exactly
   0, 1, ..., n - 1 under iterExecute(), each once and in order. *)
CountingWithinOneRun ==
    (driver.phase = "done" /\ IsCounting /\ driver.runs = 1)
        => driver.delivered = CountedValues(iteration.function.n)

\* n = 4 delivers 0, 1, 2, 3
CountingWithinOneRunWitness ==
    /\ driver.phase = "done"
    /\ IsCounting
    /\ iteration.function.n = 4
    /\ driver.runs = 1
    /\ driver.delivered = <<0, 1, 2, 3>>

(* C17: when the static loop function completes, the values delivered are
   the multiples of the period above 0 and below n, increasing, each once,
   followed by the final execution count, wherever the budget stopped the
   runs. *)
StaticLoopExactlyOnce ==
    (driver.phase = "done" /\ IsStaticLoop)
        => driver.delivered
             = PeriodValues(iteration.function.n, iteration.function.period)
                 \o <<driver.statics["executionCount"]>>

(* The delivery of the static loop function is as above, and the final
   execution count is the number of runs made, when no run was stopped by
   the budget right after a Yield or between the two increments of the loop
   body. *)
StaticLoopDelivery ==
    (driver.phase = "done" /\ IsStaticLoop /\ \A k \in DOMAIN runLog : ~StoppedMidUpdate(k))
        => /\ driver.delivered
                = PeriodValues(iteration.function.n, iteration.function.period)
                    \o <<driver.statics["executionCount"]>>
           /\ driver.statics["executionCount"] = driver.runs

\* two values and the count, delivered over three runs or more
StaticLoopDeliveryWitness ==
    /\ driver.phase = "done"
    /\ IsStaticLoop
    /\ \A k \in DOMAIN runLog : ~StoppedMidUpdate(k)
    /\ driver.runs >= 3
    /\ Len(driver.delivered) >= 3
    /\ \E k \in DOMAIN runLog : runLog[k].status = "InstructionLimitExceeded"
                                  /\ runLog[k].batch # <<>>

(* C18: in every run after the first each static variable starts with the
   value it held at the end of the run before, and in the first run with its
   declared initial value; so the static counter incremented once at the top
   of the static loop function holds k at the end of run k. *)
StaticsCarriedOver ==
    /\ \A k \in DOMAIN runLog :
          /\ runLog[k].start = IF k = 1 THEN DeclaredStatics(iteration.function)
                                ELSE runLog[k - 1].end
          /\ IsStaticLoop => runLog[k].end["executionCount"] = k
    /\ driver.phase = "running" =>
          run.start = IF runLog = <<>> THEN DeclaredStatics(iteration.function)
                      ELSE runLog[Len(runLog)].end

\* a third run that starts with a loop counter the runs before moved on
StaticsCarriedOverWitness ==
    /\ IsStaticLoop
    /\ driver.phase = "running"
    /\ Len(runLog) = 2
    /\ run.start["i"] > runLog[2].start["i"]
    /\ runLog[2].start["i"] > 0
    /\ runLog[2].end["executionCount"] = 2

(* C19: iterExecute(maxTries = m) makes at most m runs; when the m-th run
   ends without the function having completed, the iteration stops there as
   a plain end, and every value yielded so far has been delivered. *)
RunsWithinMaxTries ==
    /\ driver.runs <= iteration.maxTries
    /\ Len(runLog) <= driver.runs
    /\ driver.phase = "exhausted" =>
          /\ driver.runs = iteration.maxTries
          /\ Len(runLog) = iteration.maxTries
          /\ \A k \in DOMAIN runLog : runLog[k].status = "InstructionLimitExceeded"
          /\ driver.delivered = yieldLog

\* three runs, none complete, values delivered
RunsWithinMaxTriesWitness ==
    /\ driver.phase = "exhausted"
    /\ iteration.maxTries = 3
    /\ driver.runs = 3
    /\ Len(driver.delivered) >= 2

\* the batches of the runs 1 .. k, one after the other
RECURSIVE BatchesUpTo(_)
BatchesUpTo(k) == IF k = 0 THEN <<>> ELSE BatchesUpTo(k - 1) \o runLog[k].batch

(* C20: what iterExecute() has delivered is the batches of the finished
   runs one after the other in run order, and each batch holds the values
   passed to Yield in that run in emission order: the values delivered,
   followed by the batch of the run under way, are the values yielded so
   far in the order they were yielded. *)
DeliveryInYieldOrder ==
    /\ driver.delivered = BatchesUpTo(Len(runLog))
    /\ driver.delivered \o run.batch = yieldLog

\* two runs with a batch each, of different values
DeliveryInYieldOrderWitness ==
    /\ Len(runLog) >= 2
    /\ Len(runLog[1].batch) >= 2
    /\ runLog[2].batch # <<>>
    /\ runLog[1].batch[1] # runLog[1].batch[2]
    /\ runLog[2].batch[1] # runLog[1].batch[2]

----------------------------------------------------------------------------
(* The jumps of a closed While *)

(* C23: the Fork that closes the body of a While has an offset of at most
   -1, and its target is at least the index of the loop's NewLoopBlock and
   at most the index of the first instruction after it, which is the first
   instruction of the condition builder, or the internal ForkIfFalse when
   the condition builder emitted nothing. *)
WhileClosingForkBackward ==
    \A b \in ClosedOf("While") :
        LET f == blocks[b].bodyEnd
        IN  /\ TypeAt(f) = "Fork"
            /\ OffsetAt(f, 0) <= -1
            /\ TargetAt(f, 0) >= blocks[b].start
            /\ TargetAt(f, 0) <= blocks[b].start + 1
            /\ TargetAt(f, 0) <= blocks[b].bodyStart - 1

\* a closed While whose condition builder emitted an instruction, and one
\* whose body is not empty
WhileClosingForkBackwardWitness ==
    /\ \E b \in ClosedOf("While") : blocks[b].bodyStart - 1 > blocks[b].start + 1
    /\ \E b \in ClosedOf("While") : blocks[b].bodyEnd > blocks[b].bodyStart

(* C24: the false-branch offset of the ForkIfFalse a While emits on entry
   targets, once the While is closed, the EndLoopBlock of that loop, the
   instruction after the closing Fork. *)
WhileFalseBranchTarget ==
    \A b \in ClosedOf("While") :
        LET i == blocks[b].bodyStart - 1
        IN  /\ TypeAt(i) = "ForkIfFalse"
            /\ TargetAt(i, 1) = blocks[b].end - 1
            /\ TargetAt(i, 1) = blocks[b].bodyEnd + 1
            /\ TypeAt(TargetAt(i, 1)) = "EndLoopBlock"

\* a While closed inside another block, with a body
WhileFalseBranchTargetWitness ==
    \E b \in ClosedOf("While") :
        /\ blocks[b].start > 0
        /\ blocks[b].bodyEnd > blocks[b].bodyStart
        /\ scopeStack # <<>>

(* The stream as a record of what was emitted *)

JumpTypes == {"ForkIfFalse", "Fork", "NewLoopBlock", "NewTryBlock"}

BlockOps == {"ifBlock", "elseBlock", "whileBlock", "tryBlock", "catchBlock", "exit"}

(* C25: the instruction stream only grows at its end; a record keeps its
   type, its number of parameters and every parameter's kind and value,
   except that the value of a RelativeOffset parameter of a ForkIfFalse,
   Fork, NewLoopBlock or NewTryBlock may change, and then the step is the
   entry or the exit of a block. *)
StreamAppendOnly ==
    [][/\ Len(instructions') >= Len(instructions)
       /\ \A n \in DOMAIN instructions :
            /\ instructions'[n].instructionType = instructions[n].instructionType
            /\ Len(instructions'[n].params) = Len(instructions[n].params)
            /\ \A p \in DOMAIN instructions[n].params :
                 /\ instructions'[n].params[p].k = instructions[n].params[p].k
                 /\ instructions'[n].params[p] # instructions[n].params[p] =>
                       /\ instructions[n].params[p].k = "RelativeOffset"
                       /\ instructions[n].instructionType \in JumpTypes
                       /\ lastOp'.op \in BlockOps]_vars

\* offsets were patched on an entry and on an exit, in a stream that also
\* holds an instruction other than a jump
StreamAppendOnlyWitness ==
    /\ \E i \in 0 .. Len(instructions) - 1 : WriteCount(i, 1) = 2
    /\ \E i \in 0 .. Len(instructions) - 1 : TypeAt(i) \notin JumpTypes
    /\ lastOp.op = "exit"

(* C27: when execute() has appended the final Halt to a stream in which
   every opened scope was closed, every RelativeOffset d of the record at
   index i points into the stream: 0 <= i + d <= Len(instructions) - 1. *)
JumpTargetsInStream ==
    ExecutedAllClosed =>
        \A ip \in OffsetSlots :
            /\ TargetAt(ip[1], ip[2]) >= 0
            /\ TargetAt(ip[1], ip[2]) <= Len(instructions) - 1

\* executed with a block closed at the very end of the stream, whose jump
\* lands on the Halt
JumpTargetsInStreamWitness ==
    /\ ExecutedAllClosed
    /\ TypeAt(Len(instructions) - 1) = "Halt"
    /\ \E ip \in OffsetSlots : TargetAt(ip[1], ip[2]) = Len(instructions) - 1
    /\ \E ip \in OffsetSlots : OffsetAt(ip[1], ip[2]) < 0

(* Else and Catch entries that are refused *)

RejectedEntry(op) == op.op \in {"elseBlock", "catchBlock"} /\ op.err = "RuntimeError"

(* C28: an Else or Catch entry that raises the structural error leaves the
   instruction stream, every offset in it, the operand counter and the
   scope-just-exited slot as they were. *)
RejectedEntryChangesNothing ==
    [][RejectedEntry(lastOp') =>
          UNCHANGED <<instructions, operandIdGen, scopeJustExited, patchLog, scopeStack>>]_vars

\* a Catch refused directly after an If closed: the slot still holds the If
RejectedEntryChangesNothingWitness ==
    /\ lastOp.op = "catchBlock"
    /\ RejectedEntry(lastOp)
    /\ scopeJustExited.cls = "If"
    /\ instructions # <<>>

\* the offset slot the exit and the follower of an If or Try write
FollowerSlot(b) == IF blocks[b].cls = "If" THEN 1 ELSE 0

(* C29: an If has at most one Else and a Try at most one Catch: an Else
   entered directly after the exit of an Else raises, and so does a Catch
   directly after the exit of a Catch; the offset of an If or Try is
   written once by its exit and once more for each Else or Catch that
   followed, of which there is at most one. *)
AtMostOneFollower ==
    /\ lastOp.op = "elseBlock" /\ lastOp.eventBefore = "Else" => RejectedEntry(lastOp)
    /\ lastOp.op = "catchBlock" /\ lastOp.eventBefore = "Catch" => RejectedEntry(lastOp)
    /\ \A b \in BlocksOf("If") \cup BlocksOf("Try") :
          /\ Cardinality(Followers(b)) <= 1
          /\ WriteCount(blocks[b].start, FollowerSlot(b)) =
                (IF IsClosed(b) THEN 1 ELSE 0) + Cardinality(Followers(b))

\* a second Catch refused after the Catch of a Try closed
AtMostOneFollowerWitness ==
    /\ lastOp.op = "catchBlock"
    /\ lastOp.eventBefore = "Catch"
    /\ RejectedEntry(lastOp)
    /\ \E b \in ClosedOf("Try") : Cardinality(Followers(b)) = 1

(* C30: an Else or Catch entered directly after the exit of a While raises
   the structural error, and the offset of the internal ForkIfFalse of a
   closed While is never modified afterwards. *)
WhileTakesNoFollower ==
    /\ [](lastOp.op \in {"elseBlock", "catchBlock"} /\ lastOp.eventBefore = "While"
             => RejectedEntry(lastOp))
    /\ [][\A b \in ClosedOf("While") :
             /\ instructions'[blocks[b].bodyStart] = instructions[blocks[b].bodyStart]
             /\ WriteCount(blocks[b].bodyStart - 1, 1)' = 1]_vars

\* an Else refused directly after a While closed, the ForkIfFalse still on
\* the EndLoopBlock
WhileTakesNoFollowerWitness ==
    /\ lastOp.op = "elseBlock"
    /\ lastOp.eventBefore = "While"
    /\ RejectedEntry(lastOp)
    /\ \E b \in ClosedOf("While") :
          /\ blocks[b].end = Len(instructions)
          /\ TargetAt(blocks[b].bodyStart - 1, 1) = blocks[b].end - 1

----------------------------------------------------------------------------
(* The runs of iterExecute(), continued *)

Stopped == driver.phase \in {"done", "exhausted"}

(* C21: iterExecute() always terminates: for every iterable function, also
   one whose loop never completes, and every finite maxTries, the driver
   eventually stops issuing runs for good, having made at most maxTries
   runs and delivered at most as many values as the runs executed
   instructions. *)
IterExecuteTerminates ==
    /\ <>[]Stopped
    /\ [](driver.runs <= iteration.maxTries)
    /\ [](Len(driver.delivered) <= driver.runs * iteration.budget)

\* the function whose loop never completes, stopped after three runs that
\* each delivered values
IterExecuteTerminatesWitness ==
    /\ iteration.function = Endless
    /\ driver.phase = "exhausted"
    /\ driver.runs = 3
    /\ \A k \in DOMAIN runLog : runLog[k].batch # <<>>

IsRange == iteration.function.name \in {"range", "arrayRange"}

\* start, start + step, start + 2 * step, ... below stop
RangeValues(start, stop, step) ==
    [k \in 1 .. (IF start >= stop THEN 0 ELSE ((stop - start - 1) \div step) + 1)
        |-> start + (k - 1) * step]

IsPrefix(a, b) == Len(a) <= Len(b) /\ a = SubSeq(b, 1, Len(a))

TheRange == RangeValues(iteration.function.start, iteration.function.n,
                        iteration.function.step)

(* C22: the body of forEachNumInRange(start, stop, step) runs once for each
   of start, start + step, start + 2 * step, ... below stop, in increasing
   order, and not at all when start >= stop: a run yields a prefix of these
   values, and a run that completes yields all of them; [10, 15) yields
   10, 11, 12, 13, 14 and [0, 10) with step 2 yields 0, 2, 4, 6, 8, also
   when the values are appended to an array that forEachItemInArray then
   iterates. *)
RangeBodyRuns ==
    IsRange =>
        /\ run # NoRun => IsPrefix(run.batch, TheRange)
        /\ \A k \in DOMAIN runLog :
              /\ IsPrefix(runLog[k].batch, TheRange)
              /\ runLog[k].status = "Success" => runLog[k].batch = TheRange
        /\ (iteration.function.start >= iteration.function.n) => driver.delivered = <<>>
        /\ (driver.phase = "done" /\ driver.runs = 1) =>
              /\ iteration.function = Range(RangeTestStart, RangeTestStop, 1)
                    => driver.delivered = <<10, 11, 12, 13, 14>>
              /\ iteration.function \in {Range(0, ArrayTestStop, ArrayTestStep),
                                         ArrayRange(0, ArrayTestStop, ArrayTestStep)}
                    => driver.delivered = <<0, 2, 4, 6, 8>>

\* the function of test_forEachItemInArray completed in its first run
RangeBodyRunsWitness ==
    /\ iteration.function = ArrayRange(0, ArrayTestStop, ArrayTestStep)
    /\ driver.phase = "done"
    /\ driver.runs = 1
    /\ Len(driver.delivered) = 5

\* the function of test_forEachNumInRange completed in its first run
RangeTestCompleted ==
    /\ iteration.function = Range(RangeTestStart, RangeTestStop, 1)
    /\ driver.phase = "done"
    /\ driver.runs = 1

\* the run under way is about to enter its loop: every declaration of the
\* function lies before this point
AtLoopEntry == driver.phase = "running" /\ CurrentInstruction.op = "NewLoopBlock"

\* what the run before the one under way left in operand x
LeftBehind(x) == runLog[Len(runLog)].final[x]

(* C26: a variable not declared static is initialised again in every run:
   when a run of the counting function enters its loop, i holds its
   declared initial value 0 whatever value the run before ended with; the
   variables declared static carry over: when a run of the static loop
   function enters its loop, i and j hold what the run before ended with
   (0 in the first run), and executionCount that value plus the 1 the run
   has just added. *)
NonStaticsReinitialised ==
    AtLoopEntry =>
        /\ IsCounting => run.operands["i"] = 0
        /\ IsStaticLoop =>
              /\ run.operands["i"] = IF runLog = <<>> THEN 0 ELSE LeftBehind("i")
              /\ run.operands["j"] = IF runLog = <<>> THEN 0 ELSE LeftBehind("j")
              /\ run.operands["executionCount"] =
                    (IF runLog = <<>> THEN 0 ELSE LeftBehind("executionCount")) + 1

\* a run of the counting function enters its loop after a run that ended
\* with i above 0
NonStaticsReinitialisedWitness ==
    /\ AtLoopEntry
    /\ IsCounting
    /\ runLog # <<>>
    /\ LeftBehind("i") > 0

\* a run of the static loop function enters its loop with i above 0
StaticsKeptAtLoopEntry ==
    /\ AtLoopEntry
    /\ IsStaticLoop
    /\ run.operands["i"] > 0

----------------------------------------------------------------------------
(* execute() called more than once *)

HaltRecord == InstructionRecord("Halt", <<>>)

\* how many Halt records the stream ends with
RECURSIVE TrailingHalts(_)
TrailingHalts(ins) ==
    IF ins = <<>> \/ ins[Len(ins)] # HaltRecord THEN 0
    ELSE 1 + TrailingHalts(SubSeq(ins, 1, Len(ins) - 1))

\* the cell a Halt is encoded as
HaltCell == [cell |-> "opcode", t |-> "Halt", v |-> 0]

\* the calls of execute() made one after the other up to now, nothing between
Consecutive == lastOp.consecutiveExecutes

(* C31 as stated: each execute() leaves the stream one Halt longer, so after
   k consecutive calls of execute() with nothing in between, the first of
   them the first execute() of the builder, the stream ends with exactly k
   Halt instructions, and the k-th program submitted is the one before it
   with one more Halt appended. *)
StreamEndsWithExactlyKHalts ==
    (lastOp.op = "execute" /\ Consecutive = Len(submitted)) =>
        /\ Len(instructions) = lastOp.lenBefore + 1
        /\ TrailingHalts(instructions) = Consecutive
        /\ Consecutive >= 2 =>
              LastSubmitted = Append(submitted[Len(submitted) - 1], HaltCell)

(* C31, amended: each execute() appends exactly one Halt and changes nothing
   before it; after k consecutive calls the last k records of the stream are
   the Halts these calls appended, and the k-th program submitted is the one
   before it with one more Halt appended. The stream ends with exactly k
   Halts when the record before them is not a Halt, and with more when the
   caller's own halt() left Halts there. *)
ExecuteAppendsHaltEachTime ==
    /\ [](lastOp.op = "execute" =>
            LET k == Consecutive
                before == SubSeq(instructions, 1, Len(instructions) - k)
            IN  /\ k >= 1
                /\ Len(instructions) >= k
                /\ Len(instructions) = lastOp.lenBefore + 1
                /\ \A n \in (Len(instructions) - k + 1) .. Len(instructions) :
                      instructions[n] = HaltRecord
                /\ TrailingHalts(instructions) = k + TrailingHalts(before)
                /\ k >= 2 =>
                      LastSubmitted = Append(submitted[Len(submitted) - 1], HaltCell))
    /\ [][ExecuteStep =>
             /\ instructions' = Append(instructions, HaltRecord)
             /\ lastOp'.consecutiveExecutes =
                   (IF lastOp.op = "execute" THEN lastOp.consecutiveExecutes ELSE 0) + 1]_vars

\* three calls of execute() in a row on a stream that the caller's halt()
\* inside an If had ended: four Halts at the end
ExecuteAppendsHaltEachTimeWitness ==
    /\ lastOp.op = "execute"
    /\ Consecutive = 3
    /\ TrailingHalts(instructions) = 4
    /\ \E b \in ClosedOf("If") : blocks[b].end = Len(instructions) - 3

====
